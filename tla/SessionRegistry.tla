-------------------------- MODULE SessionRegistry --------------------------
(***************************************************************************)
(* SessionService in cluster mode, with the operations that call it: who   *)
(* is connected, where, and when a user is announced online or offline.    *)
(*                                                                         *)
(* Every node keeps its own sockets (SESSIONS and DEVICES) and writes what *)
(* the other nodes must know to Redis: sama-node-users, sama-user-devices, *)
(* sama-user-data and, with a time to live, sama-node-data.  A Node.js     *)
(* process runs one synchronous block at a time and yields at every await, *)
(* so a task makes one step for each Redis command (or MULTI transaction)  *)
(* and for each block that reads or writes the node's own sockets.  All    *)
(* tasks of a node share one Redis client (lib/redis.js), which sends      *)
(* their commands and answers them in the order they were issued.          *)
(* A crash of a node loses its sockets and its tasks, never Redis.         *)
(*                                                                         *)
(* One organization is modelled.  Of the sama-user-data hash the NODE      *)
(* field is kept; the inactive flag beside it does not change it.          *)
(***************************************************************************)
EXTENDS Naturals, FiniteSets

CONSTANTS
    Nodes, Users, Devices, Sockets, None,
    HttpDevice,     \* HTTP_DEVICE_ID: the device of a REST request
    SocketNode,     \* SocketNode[s]: the node that accepted socket s
    Slots,          \* bound: concurrent client operations
    Crashable,      \* the nodes that may crash
    Allowed         \* what clients and crashes may do, see Behaviours

\* overlap: tasks interleave;   reauth: a login on an authenticated socket;
\* replace: a device logs in again on its node before its old socket closed;
\* move: the same on another node;   http: REST requests;
\* list: requests that list the devices of a user;   sync: periodic syncs;
\* delete: a user deletes its account;
\* midcrash: a node crashes while one of its tasks runs;
\* restart: a crashed node starts again.
Behaviours == {"overlap", "reauth", "replace", "move", "http", "list", "sync",
               "delete", "midcrash", "restart"}

ASSUME ConstantsAssumption ==
    /\ None \notin Nodes \cup Users \cup Devices \cup Sockets
    /\ HttpDevice \notin Devices \cup {None}
    /\ SocketNode \in [Sockets -> Nodes]
    /\ Nodes \cap Slots = {}
    /\ Crashable \subseteq Nodes
    /\ Allowed \subseteq Behaviours

VARIABLES
    accounts,       \* the users that are not deleted
    phase,          \* a node is "up", "down" or "booting"
    open,           \* the sockets that are connected
    SESSIONS,       \* the user of a socket, None without a session
    DEVICES,        \* DEVICES[n][u]: the connections of u at node n
    nodeUsers,      \* sama-node-users:{node}
    userDevices,    \* sama-user-devices:{user}
    userData,       \* the NODE field of sama-user-data:{user}:{device}
    nodeData,       \* the nodes whose sama-node-data key has not expired
    tasks,          \* operations in flight; task n is the sync of node n
    ahead,          \* ahead[k]: the tasks of k's node whose command the Redis
                    \* client has to answer before the one of k
    status          \* the last activity status announced for a user

local == <<open, SESSIONS, DEVICES>>
records == <<nodeUsers, userDevices, userData>>
cluster == <<accounts, phase, nodeData>>
work == <<tasks, ahead>>
vars == <<local, records, cluster, work, status>>

Keys == Slots \cup Nodes

AllDevices == Devices \cup {HttpDevice}
Connection == [socket : Sockets, device : AllDevices]

\* A task: the operation and its next step, then its local variables.  dev
\* and endpoint belong to the removal in progress, list and left to the
\* listing in progress; ret is the step after the removal.
NoTask == [op |-> "idle", pc |-> "idle", node |-> None, socket |-> None,
           user |-> None, device |-> None, same |-> None, org |-> TRUE,
           dev |-> None, endpoint |-> None, list |-> {}, left |-> {},
           ret |-> "finish", owner |-> None, pairs |-> {}, active |-> {},
           nodes |-> {}, members |-> {}, last |-> {}]

Ops == {"idle", "connect", "close", "logout", "delete", "list", "http",
        "watchdog", "sync", "boot"}

\* The steps that wait for a Redis command and the other ones, which wait for
\* the database, the network or a timer.
Commands == {"devices", "add", "sRem", "hGetAll", "del", "sRemNode", "left",
             "filter", "check", "drop", "dataList", "dataGet", "dataNode",
             "delList", "delData", "delUser", "members", "cleanDevice",
             "cleanLast", "cleanData", "cleanNode", "upsert", "active",
             "nodeInfo", "stored"}
Steps == Commands \cup
         {"idle", "auth", "found", "online", "offline", "logout", "http", "ping",
          "again", "session", "delAccount", "announce", "destroyed"}

Task == [op : Ops, pc : Steps, node : Nodes \cup {None},
         socket : Sockets \cup {None}, user : Users \cup {None},
         device : AllDevices \cup {None}, same : AllDevices \cup {None},
         org : BOOLEAN, dev : AllDevices \cup {None},
         endpoint : Nodes \cup {None}, list : SUBSET AllDevices,
         left : SUBSET AllDevices, ret : {"finish", "add", "online", "offline"},
         owner : Users \cup {None}, pairs : SUBSET (AllDevices \X Nodes),
         active : SUBSET Nodes, nodes : SUBSET Nodes,
         members : SUBSET (Users \X AllDevices), last : SUBSET Users]

TypeOK ==
    /\ accounts \subseteq Users
    /\ phase \in [Nodes -> {"up", "down", "booting"}]
    /\ open \subseteq Sockets
    /\ SESSIONS \in [Sockets -> Users \cup {None}]
    /\ DEVICES \in [Nodes -> [Users -> SUBSET Connection]]
    /\ nodeUsers \in [Nodes -> SUBSET (Users \X AllDevices)]
    /\ userDevices \in [Users -> SUBSET AllDevices]
    /\ userData \in [Users -> [AllDevices -> Nodes \cup {None}]]
    /\ nodeData \subseteq Nodes
    /\ tasks \in [Keys -> Task]
    /\ ahead \in [Keys -> SUBSET Keys]
    /\ status \in [Users -> {"online", "offline"}]

Init ==
    /\ accounts = Users
    /\ phase = [n \in Nodes |-> "up"]
    /\ open = {}
    /\ SESSIONS = [s \in Sockets |-> None]
    /\ DEVICES = [n \in Nodes |-> [u \in Users |-> {}]]
    /\ nodeUsers = [n \in Nodes |-> {}]
    /\ userDevices = [u \in Users |-> {}]
    /\ userData = [u \in Users |-> [d \in AllDevices |-> None]]
    /\ nodeData = Nodes
    /\ tasks = [k \in Keys |-> NoTask]
    /\ ahead = [k \in Keys |-> {}]
    /\ status = [u \in Users |-> "offline"]

Quiet == \A k \in Keys : tasks[k] = NoTask

MayStart(k, n) ==
    /\ tasks[k] = NoTask
    /\ phase[n] = "up"
    /\ "overlap" \in Allowed \/ Quiet

\* The tasks of node n that wait for Redis.
Waiting(n) == {k \in Keys : tasks[k].node = n /\ tasks[k].pc \in Commands}

\* Task k goes on as t: its turn is over, and if its next step is a command,
\* that comes after the ones its node is waiting for.  The reply to "filter"
\* is used in "check", so the turn lasts until then.
Become(k, t) ==
    /\ tasks' = [tasks EXCEPT ![k] = t]
    /\ ahead' = IF t.pc = "check" THEN ahead
                ELSE [j \in Keys |->
                        IF j # k THEN ahead[j] \ {k}
                        ELSE IF t.pc \in Commands THEN Waiting(t.node) \ {k} ELSE {}]

Finish(k) == Become(k, NoTask)

\* It is the turn of task k to make step pc.
At(k, pc) == tasks[k].pc = pc /\ ahead[k] = {}

\* A Redis command of task k that writes; the caller says what.
Write(k, pc, t) == At(k, pc) /\ Become(k, t) /\ UNCHANGED <<local, cluster, status>>

\* One that only reads, or a decision of the task.
Read(k, pc, t) == Write(k, pc, t) /\ UNCHANGED records

\* A block of task k that edits the sockets of its node; it leaves Redis alone.
Block(k, pc) == At(k, pc) /\ UNCHANGED <<records, cluster, status>>

\* A new task on a socket of a node that is up.
Begin(k, t) == MayStart(k, t.node) /\ Become(k, t) /\ UNCHANGED <<records, cluster, status>>

----------------------------------------------------------------------------
(* The sockets of one node. *)

\* Array.find: one element that satisfies the condition, if there is one.
FindSocket(conns, s) ==
    LET hits == {c \in conns : c.socket = s}
    IN  IF hits = {} THEN {} ELSE {CHOOSE c \in hits : TRUE}

FindDevice(conns, d) ==
    LET hits == {c \in conns : c.device = d}
    IN  IF hits = {} THEN {} ELSE {CHOOSE c \in hits : TRUE}

keepSameDevice(conns, s, d) ==
    (conns \ FindSocket(conns, s)) \cup {[socket |-> s, device |-> d]}

keepSameSocket(conns, s, d) ==
    (conns \ FindDevice(conns, d)) \cup {[socket |-> s, device |-> d]}

\* The connections of a user after a login of socket s with device d.
addUserDeviceConnection(conns, s, d) ==
    (conns \ (FindSocket(conns, s) \cup FindDevice(conns, d)))
        \cup {[socket |-> s, device |-> d]}

connectionNotDevice(conns, s) ==
    LET found == FindSocket(conns, s)
    IN  IF found = {} THEN None ELSE CHOOSE c \in found : TRUE

getDeviceId(conns, s) ==
    LET found == FindSocket(conns, s)
    IN  IF found = {} THEN None ELSE (CHOOSE c \in found : TRUE).device

\* Where a task goes when a removal is done: an operation that reports the
\* last connection announces it, and the watchdog then removes once more.
Finished(t) ==
    IF t.op = "watchdog" /\ t.ret = "offline"
    THEN [t EXCEPT !.pc = "again", !.ret = "finish", !.dev = None, !.left = {}]
    ELSE NoTask

Returned(t) ==
    IF t.ret \in {"add", "online"} \/ (t.ret = "offline" /\ t.left = {})
    THEN [t EXCEPT !.pc = t.ret, !.dev = None, !.left = {}]
    ELSE Finished(t)

\* The synchronous part of removeUserSession by task k with variables t: the
\* connections of device d and the session of socket s go away.  Without a
\* device the answer comes from the connections of this node alone; with one
\* the records are removed, under no organization if the session was gone.
removeUserSession(k, t, s, d) ==
    LET kept == {c \in DEVICES[t.node][t.user] : c.device # d}
    IN  /\ DEVICES' = [DEVICES EXCEPT ![t.node][t.user] = kept]
        /\ SESSIONS' = [SESSIONS EXCEPT ![s] = None]
        /\ Become(k, IF d = None
                     THEN Returned([t EXCEPT !.left = {c.device : c \in kept}])
                     ELSE [t EXCEPT !.pc = "sRem", !.dev = d,
                                    !.org = SESSIONS[s] # None])

----------------------------------------------------------------------------
(* Login: UserAuthOperation and UserConnectSocketOperation. *)

\* A socket object that no session, connection or task refers to any more.
Fresh(s) ==
    /\ s \notin open
    /\ SESSIONS[s] = None
    /\ \A u \in Users : FindSocket(DEVICES[SocketNode[s]][u], s) = {}
    /\ \A k \in Slots : tasks[k].socket # s

\* The open sockets on which the client has logged in, or is about to, as
\* user u with device d.
InUse(u, d) ==
    {s \in open : \/ [socket |-> s, device |-> d] \in DEVICES[SocketNode[s]][u]
                  \/ \E k \in Slots : /\ tasks[k].op = "connect"
                                      /\ tasks[k].socket = s
                                      /\ tasks[k].user = u
                                      /\ tasks[k].device = d}

\* The response object of a REST request that is running.
IsResponse(s) == \E k \in Slots : tasks[k].op = "http" /\ tasks[k].socket = s

\* What the client may do with socket s and device d, see Behaviours.
ClientMayLogin(s, u, d) ==
    /\ \/ Fresh(s)
       \/ s \in open /\ "reauth" \in Allowed /\ ~IsResponse(s)
       \/ s \in open /\ SESSIONS[s] = None /\ \A k \in Slots : tasks[k].socket # s
    /\ \A s2 \in InUse(u, d) :
         \/ s2 = s /\ "reauth" \in Allowed
         \/ s2 # s /\ SocketNode[s2] = SocketNode[s] /\ "replace" \in Allowed
         \/ SocketNode[s2] # SocketNode[s] /\ "move" \in Allowed

Login(k, s, u, d) ==
    /\ ClientMayLogin(s, u, d)
    /\ open' = open \cup {s}
    /\ Begin(k, [NoTask EXCEPT !.op = "connect", !.pc = "auth", !.user = u,
                   !.node = SocketNode[s], !.socket = s, !.device = d])
    /\ UNCHANGED <<SESSIONS, DEVICES>>

\* An expired token or a deleted user; then a wrong password or a blocked
\* organization.
LoginRejected(k) == Read(k, "auth", NoTask) \/ Read(k, "found", NoTask)

\* findById or findByLogin: the user is read here, and not again.
FindUser(k, t) == t.user \in accounts /\ Read(k, "auth", [t EXCEPT !.pc = "found"])

\* The database has answered; the socket may have been closed, and the user
\* deleted, meanwhile.  The first command of storeUserNodeData is issued at once.
LoginAccepted(k, t) ==
    /\ Block(k, "found")
    /\ DEVICES' = [DEVICES EXCEPT ![t.node][t.user] =
                     addUserDeviceConnection(@, t.socket, t.device)]
    /\ SESSIONS' = [SESSIONS EXCEPT ![t.socket] = t.user]
    /\ Become(k, [t EXCEPT !.pc = "devices",
                    !.same = getDeviceId(DEVICES[t.node][t.user], t.socket)])
    /\ UNCHANGED open

\* storeUserNodeData: a record of the same device is removed first.
StoreListDevices(k, t) ==
    Read(k, "devices", IF t.device \in userDevices[t.user]
                       THEN [t EXCEPT !.pc = "sRem", !.dev = t.device, !.ret = "add"]
                       ELSE [t EXCEPT !.pc = "add"])

\* The transaction; then the records of the device that the socket had, as
\* sameSocketConnection reports it, are removed.
addUserDeviceDataTransaction(k, t) ==
    /\ Write(k, "add", IF t.same # None
                       THEN [t EXCEPT !.pc = "sRem", !.dev = t.same, !.ret = "online"]
                       ELSE [t EXCEPT !.pc = "online"])
    /\ userDevices' = [userDevices EXCEPT ![t.user] = @ \cup {t.device}]
    /\ userData' = [userData EXCEPT ![t.user][t.device] = t.node]
    /\ nodeUsers' = [nodeUsers EXCEPT ![t.node] = @ \cup {<<t.user, t.device>>}]

Announce(k, t, users, s) ==
    /\ status' = [u \in Users |-> IF u \in users THEN s ELSE status[u]]
    /\ Become(k, t)
    /\ UNCHANGED <<local, records, cluster>>

AnnounceOnline(k, t) == At(k, "online") /\ Announce(k, NoTask, {t.user}, "online")

AnnounceOffline(k, t) == At(k, "offline") /\ Announce(k, Finished(t), {t.user}, "offline")

----------------------------------------------------------------------------
(* removeAllUserDeviceData: four commands, then a listing that drops the   *)
(* devices that are not connected any more.  Keys that name the            *)
(* organization are missed when the session was gone.                      *)

RemoveDevice(k, t) ==
    /\ Write(k, "sRem", [t EXCEPT !.pc = "hGetAll"])
    /\ userDevices' = [userDevices EXCEPT ![t.user] = IF t.org THEN @ \ {t.dev} ELSE @]
    /\ UNCHANGED <<nodeUsers, userData>>

ReadEndpoint(k, t) ==
    LET stored == userData[t.user][t.dev]
    IN  Read(k, "hGetAll", [t EXCEPT !.pc = "del",
               !.endpoint = IF stored = None THEN t.node ELSE stored])

DeleteExtraParams(k, t) ==
    /\ Write(k, "del", [t EXCEPT !.pc = "sRemNode"])
    /\ userData' = [userData EXCEPT ![t.user][t.dev] = None]
    /\ UNCHANGED <<nodeUsers, userDevices>>

RemoveFromNode(k, t) ==
    /\ Write(k, "sRemNode", [t EXCEPT !.pc = "left", !.endpoint = None])
    /\ nodeUsers' = [nodeUsers EXCEPT ![t.endpoint] =
                       IF t.org THEN @ \ {<<t.user, t.dev>>} ELSE @]
    /\ UNCHANGED <<userDevices, userData>>

\* listUserDevice with filterActualDevices.
NextDevice(t) == IF t.list = {} THEN Returned(t) ELSE [t EXCEPT !.pc = "filter"]

listLocalDevices(k, t) ==
    LET devices == {c.device : c \in DEVICES[t.node][t.user]} \ {HttpDevice}
    IN  Read(k, "left", NextDevice([t EXCEPT !.list = devices, !.left = devices]))

ListLeftDevices(k, t) ==
    LET devices == IF t.org THEN userDevices[t.user] ELSE {}
    IN  Read(k, "left", NextDevice([t EXCEPT !.list = devices, !.left = devices]))

FilterRead(k, t) ==
    \E d \in t.list :
        Read(k, "filter", [t EXCEPT !.pc = "check", !.dev = d, !.list = @ \ {d},
                                    !.endpoint = userData[t.user][d]])

dropRemoteDevices(k, t) ==
    LET gone == FindDevice(DEVICES[t.node][t.user], t.dev) = {}
    IN  Read(k, "check",
             IF gone
             THEN [t EXCEPT !.pc = "drop", !.left = @ \ {t.dev}, !.endpoint = None]
             ELSE NextDevice([t EXCEPT !.endpoint = None]))

\* Not actual: no endpoint, or this node's endpoint without a connection.
FilterCheck(k, t) ==
    LET gone == \/ t.endpoint = None
                \/ t.endpoint = t.node /\ FindDevice(DEVICES[t.node][t.user], t.dev) = {}
    IN  Read(k, "check",
             IF gone
             THEN [t EXCEPT !.pc = "drop", !.left = @ \ {t.dev}, !.endpoint = None]
             ELSE NextDevice([t EXCEPT !.endpoint = None]))

removeAllUserDeviceDataTransaction(k, t) ==
    /\ Write(k, "drop", NextDevice(t))
    /\ userDevices' = [userDevices EXCEPT ![t.user] = @ \ {t.dev}]
    /\ userData' = [userData EXCEPT ![t.user][t.dev] = None]
    /\ nodeUsers' = [nodeUsers EXCEPT ![t.node] = @ \ {<<t.user, t.dev>>}]

\* Operations that list the devices of a user: subscribing to its activity,
\* asking for its status, the list of online users.
ListUserDevice(k, n, u) ==
    /\ "list" \in Allowed
    /\ Begin(k, [NoTask EXCEPT !.op = "list", !.pc = "left", !.node = n, !.user = u])
    /\ UNCHANGED local

----------------------------------------------------------------------------
(* A socket goes away. *)

\* onClose of the protocol processors: nothing to do without a session.
Close(k, s) ==
    LET n == SocketNode[s]
        u == SESSIONS[s]
        t == [NoTask EXCEPT !.op = "close", !.node = n, !.socket = s,
                            !.user = u, !.ret = "offline"]
    IN  /\ MayStart(k, n)
        /\ s \in open
        /\ ~IsResponse(s)
        /\ open' = open \ {s}
        /\ IF u = None
           THEN UNCHANGED <<SESSIONS, DEVICES, work>>
           ELSE removeUserSession(k, t, s, getDeviceId(DEVICES[n][u], s))
        /\ UNCHANGED <<records, cluster, status>>

\* UserLogoutOperation looks up the device, then waits for the database.
Logout(k, s) ==
    LET n == SocketNode[s]
        u == SESSIONS[s]
    IN  /\ s \in open
        /\ ~IsResponse(s)
        /\ u # None
        /\ Begin(k, [NoTask EXCEPT !.op = "logout", !.pc = "logout", !.node = n,
                       !.socket = s, !.user = u, !.ret = "offline",
                       !.device = getDeviceId(DEVICES[n][u], s)])
        /\ UNCHANGED local

LogoutRemove(k, t) ==
    /\ Block(k, "logout")
    /\ removeUserSession(k, t, t.socket,
         IF t.device # None THEN t.device
         ELSE getDeviceId(DEVICES[t.node][t.user], t.socket))
    /\ UNCHANGED open

\* A REST request binds its response object to the user as a connection of
\* HTTP_DEVICE_ID while it runs, and unbindSession removes it.
HttpRequest(k, s, u) ==
    /\ "http" \in Allowed
    /\ Fresh(s)
    /\ u \in accounts
    /\ open' = open \cup {s}
    /\ DEVICES' = [DEVICES EXCEPT ![SocketNode[s]][u] =
                     addUserDeviceConnection(@, s, HttpDevice)]
    /\ SESSIONS' = [SESSIONS EXCEPT ![s] = u]
    /\ Begin(k, [NoTask EXCEPT !.op = "http", !.pc = "http", !.user = u,
                   !.node = SocketNode[s], !.socket = s])

\* It removes the connection of the user the session names, if there is one.
HttpUnbind(k, t) ==
    LET u == SESSIONS[t.socket]
    IN  /\ Block(k, "http")
        /\ IF u = None
           THEN Finish(k) /\ UNCHANGED <<SESSIONS, DEVICES>>
           ELSE removeUserSession(k, [t EXCEPT !.user = u], t.socket, HttpDevice)
        /\ open' = open \ {t.socket}

\* watchdogPingSocket goes through the connections that a user has when it
\* comes to the user, and waits between two of them, so the one it pings may
\* be gone by then.  One task stands for one connection.
WatchdogPing(k, n, u, c) ==
    /\ c.device # HttpDevice
    /\ Begin(k, [NoTask EXCEPT !.op = "watchdog", !.pc = "ping", !.node = n,
                   !.owner = u, !.socket = c.socket, !.device = c.device])
    /\ UNCHANGED local

WatchdogAlive(k, t) == t.socket \in open /\ Read(k, "ping", NoTask)

\* The ping to a closed socket fails: the socket is closed once more, and the
\* connection that was pinged removed by device.
WatchdogClose(k, t) ==
    LET u == SESSIONS[t.socket]
        closing == [t EXCEPT !.ret = "offline", !.user = u]
    IN  /\ Block(k, "ping")
        /\ t.socket \notin open
        /\ IF u = None
           THEN Become(k, Finished(closing)) /\ UNCHANGED <<SESSIONS, DEVICES>>
           ELSE removeUserSession(k, closing, t.socket,
                                  getDeviceId(DEVICES[t.node][u], t.socket))
        /\ UNCHANGED open

WatchdogRemove(k, t) ==
    /\ Block(k, "again")
    /\ removeUserSession(k, [t EXCEPT !.user = t.owner], t.socket, t.device)
    /\ UNCHANGED open

----------------------------------------------------------------------------
(* UserDeleteOperation: removeAllUserSessions, then the account.  The      *)
(* first works on the user the socket has by then, the second on the user  *)
(* that asked.                                                             *)

DeleteUser(k, s) ==
    /\ "delete" \in Allowed
    /\ s \in open
    /\ ~IsResponse(s)
    /\ SESSIONS[s] # None
    /\ Begin(k, [NoTask EXCEPT !.op = "delete", !.pc = "session", !.socket = s,
                   !.node = SocketNode[s], !.user = SESSIONS[s], !.owner = SESSIONS[s]])
    /\ UNCHANGED local

removeAllUserSessions(k, t) ==
    LET u == SESSIONS[t.socket]
    IN  /\ Block(k, "session")
        /\ IF u = None
           THEN /\ Become(k, [t EXCEPT !.pc = "delAccount"])
                /\ UNCHANGED <<SESSIONS, DEVICES>>
           ELSE /\ DEVICES' = [DEVICES EXCEPT ![t.node][u] = {}]
                /\ SESSIONS' = [SESSIONS EXCEPT ![t.socket] = None]
                /\ Become(k, [t EXCEPT !.pc = "dataList", !.user = u])
        /\ UNCHANGED open

\* The next step of a loop over the set that is left.
Loop(rest, body, after) == IF rest = {} THEN after ELSE body

ListUserData(k, t) ==
    LET devices == userDevices[t.user]
    IN  Read(k, "dataList", [t EXCEPT !.list = devices,
                               !.pc = Loop(devices, "dataGet", "delList")])

ReadUserData(k, t) ==
    \E d \in t.list :
        LET n == userData[t.user][d]
            found == t.pairs \cup (IF n = None THEN {} ELSE {<<d, n>>})
        IN  Read(k, "dataGet",
                 [t EXCEPT !.list = @ \ {d}, !.pairs = found,
                    !.pc = Loop(t.list \ {d}, "dataGet", Loop(found, "dataNode", "delList"))])

RemoveUserFromNodes(k, t) ==
    \E p \in t.pairs :
        /\ Write(k, "dataNode", [t EXCEPT !.pairs = @ \ {p},
                                   !.pc = Loop(t.pairs \ {p}, "dataNode", "delList")])
        /\ nodeUsers' = [nodeUsers EXCEPT ![p[2]] = @ \ {<<t.user, p[1]>>}]
        /\ UNCHANGED <<userDevices, userData>>

DeleteListDevices(k, t) ==
    LET devices == userDevices[t.user]
    IN  Read(k, "delList", [t EXCEPT !.list = devices,
                              !.pc = Loop(devices, "delData", "delUser")])

DeleteDeviceData(k, t) ==
    \E d \in t.list :
        /\ Write(k, "delData", [t EXCEPT !.list = @ \ {d},
                                  !.pc = Loop(t.list \ {d}, "delData", "delUser")])
        /\ userData' = [userData EXCEPT ![t.user][d] = None]
        /\ UNCHANGED <<nodeUsers, userDevices>>

DeleteUserDevices(k, t) ==
    /\ Write(k, "delUser", [t EXCEPT !.pc = "delAccount"])
    /\ userDevices' = [userDevices EXCEPT ![t.user] = {}]
    /\ UNCHANGED <<nodeUsers, userData>>

DeleteAccount(k, t) ==
    /\ At(k, "delAccount")
    /\ Finish(k)
    /\ accounts' = accounts \ {t.owner}
    /\ UNCHANGED <<local, records, phase, nodeData, status>>

----------------------------------------------------------------------------
(* Nodes: syncCluster, cleanDestroyedNodeData, cold start and crash. *)

\* One sync of a node at a time.
SyncCluster(n) ==
    /\ "sync" \in Allowed
    /\ Begin(n, [NoTask EXCEPT !.op = "sync", !.pc = "upsert", !.node = n])
    /\ UNCHANGED local

\* hSet and expire as one step: between the two the key has the time to live
\* of the previous sync or, in a cold start, the node has no client yet.
StoreCurrentNode(n, t) ==
    /\ At(n, "upsert")
    /\ Become(n, [t EXCEPT !.pc = "active", !.endpoint = None])
    /\ nodeData' = nodeData \cup {n}
    /\ UNCHANGED <<local, records, accounts, phase, status>>

\* The keys of sama-node-data, then the hash of each.
RetrieveActive(n, t) ==
    Read(n, "active", [t EXCEPT !.nodes = nodeData,
                                !.pc = Loop(nodeData, "nodeInfo", "stored")])

RetrieveNodeInfo(n, t) ==
    \E m \in t.nodes \cap nodeData :
        Read(n, "nodeInfo", [t EXCEPT !.active = @ \cup {m}, !.nodes = @ \ {m},
                               !.pc = Loop(t.nodes \ {m}, "nodeInfo", "stored")])

\* The key has expired in between: there is no URL without an address, and
\* the sync ends with an exception once the rest is read.  So does a cold
\* start: the node never listens to clients.
RetrieveFailed(n, t) ==
    /\ At(n, "nodeInfo")
    /\ ~(t.nodes \subseteq nodeData)
    /\ Finish(n)
    /\ phase' = [phase EXCEPT ![n] = IF t.op = "boot" THEN "down" ELSE @]
    /\ UNCHANGED <<local, records, accounts, nodeData, status>>

ignoreStored(n, t) ==
    \E known \in SUBSET (Nodes \ {n}) :
        Read(n, "stored", [t EXCEPT !.pc = "destroyed", !.active = {},
                             !.nodes = known \ t.active])

\* Destroyed: stored and not active, or known to the mesh and not active.
\* The mesh is not part of this module, it may know any other node.
RetrieveStored(n, t) ==
    LET stored == {m \in Nodes : nodeUsers[m] # {}}
    IN  \E known \in SUBSET (Nodes \ {n}) :
            Read(n, "stored", [t EXCEPT !.pc = "destroyed", !.active = {},
                                 !.nodes = (stored \cup known) \ t.active])

CleanNextNode(n, t) ==
    \E m \in t.nodes :
        Read(n, "destroyed", [t EXCEPT !.pc = "members", !.endpoint = m, !.nodes = @ \ {m}])

\* A sync ends; the first one of a cold start opens the node to clients.
SyncDone(n, t) ==
    /\ At(n, "destroyed")
    /\ t.nodes = {}
    /\ Finish(n)
    /\ phase' = [phase EXCEPT ![n] = "up"]
    /\ UNCHANGED <<local, records, accounts, nodeData, status>>

\* clearNodeUsersSession(endpoint).
ListNodeUserDevices(n, t) ==
    LET found == nodeUsers[t.endpoint]
    IN  Read(n, "members", [t EXCEPT !.members = found,
                              !.pc = Loop(found, "cleanDevice", "cleanNode")])

CleanUserDevice(n, t) ==
    \E m \in t.members :
        /\ Write(n, "cleanDevice", [t EXCEPT !.pc = "cleanLast", !.user = m[1],
                                      !.dev = m[2], !.members = @ \ {m}])
        /\ userDevices' = [userDevices EXCEPT ![m[1]] = @ \ {m[2]}]
        /\ UNCHANGED <<nodeUsers, userData>>

CleanIsLast(n, t) ==
    Read(n, "cleanLast", [t EXCEPT !.pc = "cleanData",
           !.last = IF userDevices[t.user] = {} THEN @ \cup {t.user} ELSE @])

CleanUserData(n, t) ==
    /\ Write(n, "cleanData", [t EXCEPT !.user = None, !.dev = None,
                                !.pc = Loop(t.members, "cleanDevice", "cleanNode")])
    /\ userData' = [userData EXCEPT ![t.user][t.dev] = None]
    /\ UNCHANGED <<nodeUsers, userDevices>>

deleteNodeConnections(n, t) ==
    /\ Write(n, "cleanNode", [t EXCEPT !.pc = "announce"])
    /\ nodeUsers' = [nodeUsers EXCEPT ![t.endpoint] = {}]
    /\ UNCHANGED <<userDevices, userData>>

\* The users whose last connection was cleaned are announced offline, one
\* after the other.
AnnounceCleaned(n, t) ==
    \E u \in t.last :
        /\ At(n, "announce")
        /\ Announce(n, [t EXCEPT !.last = @ \ {u}], {u}, "offline")

\* A cold start, which has cleaned its own records, goes on to the first sync.
CleaningDone(n, t) ==
    /\ t.last = {}
    /\ Read(n, "announce", IF t.endpoint = n
                           THEN [t EXCEPT !.pc = "upsert"]
                           ELSE [t EXCEPT !.pc = "destroyed", !.endpoint = None])

SocketsOf(n) == {s \in Sockets : SocketNode[s] = n}

Crash(n) ==
    /\ n \in Crashable
    /\ phase[n] # "down"
    /\ "midcrash" \in Allowed \/ \A k \in Keys : tasks[k].node # n
    /\ phase' = [phase EXCEPT ![n] = "down"]
    /\ open' = open \ SocketsOf(n)
    /\ SESSIONS' = [s \in Sockets |-> IF s \in SocketsOf(n) THEN None ELSE SESSIONS[s]]
    /\ DEVICES' = [DEVICES EXCEPT ![n] = [u \in Users |-> {}]]
    /\ tasks' = [k \in Keys |-> IF tasks[k].node = n THEN NoTask ELSE tasks[k]]
    /\ ahead' = [k \in Keys |-> IF tasks[k].node = n THEN {} ELSE ahead[k]]
    /\ UNCHANGED <<records, accounts, nodeData, status>>

startWithoutCleaning(n) ==
    /\ "restart" \in Allowed
    /\ phase[n] = "down"
    /\ "overlap" \in Allowed \/ Quiet
    /\ phase' = [phase EXCEPT ![n] = "booting"]
    /\ Become(n, [NoTask EXCEPT !.op = "boot", !.pc = "upsert", !.node = n])
    /\ UNCHANGED <<local, records, accounts, nodeData, status>>

\* A node starts: it cleans what its previous run has left.
ColdStart(n) ==
    /\ "restart" \in Allowed
    /\ phase[n] = "down"
    /\ "overlap" \in Allowed \/ Quiet
    /\ phase' = [phase EXCEPT ![n] = "booting"]
    /\ Become(n, [NoTask EXCEPT !.op = "boot", !.pc = "members", !.node = n,
                                !.endpoint = n])
    /\ UNCHANGED <<local, records, accounts, nodeData, status>>

\* Redis drops sama-node-data of a node that does not refresh it.  A node
\* that is up does so well within the time to live.
Expire(n) ==
    /\ n \in nodeData
    /\ phase[n] = "down" \/ (phase[n] = "booting" /\ tasks[n].endpoint = n)
    /\ nodeData' = nodeData \ {n}
    /\ UNCHANGED <<local, records, accounts, phase, work, status>>

----------------------------------------------------------------------------

ClientRequest(k) ==
    \/ \E s \in Sockets, u \in Users, d \in Devices : Login(k, s, u, d)
    \/ \E s \in Sockets : Close(k, s) \/ Logout(k, s) \/ DeleteUser(k, s)
    \/ \E s \in Sockets, u \in Users : HttpRequest(k, s, u)
    \/ \E n \in Nodes, u \in Users : ListUserDevice(k, n, u)

Watchdog(k) ==
    \E n \in Nodes, u \in Users : \E c \in DEVICES[n][u] : WatchdogPing(k, n, u, c)

ClientStep(k) ==
    LET t == tasks[k]
    IN  \/ FindUser(k, t) \/ LoginAccepted(k, t) \/ StoreListDevices(k, t)
        \/ addUserDeviceDataTransaction(k, t)
        \/ AnnounceOnline(k, t) \/ AnnounceOffline(k, t)
        \/ RemoveDevice(k, t) \/ ReadEndpoint(k, t) \/ DeleteExtraParams(k, t)
        \/ RemoveFromNode(k, t) \/ ListLeftDevices(k, t) \/ FilterRead(k, t)
        \/ FilterCheck(k, t) \/ removeAllUserDeviceDataTransaction(k, t)
        \/ LogoutRemove(k, t) \/ HttpUnbind(k, t)
        \/ WatchdogAlive(k, t) \/ WatchdogClose(k, t) \/ WatchdogRemove(k, t)
        \/ removeAllUserSessions(k, t) \/ ListUserData(k, t) \/ ReadUserData(k, t)
        \/ RemoveUserFromNodes(k, t) \/ DeleteListDevices(k, t)
        \/ DeleteDeviceData(k, t) \/ DeleteUserDevices(k, t) \/ DeleteAccount(k, t)

SyncStep(n) ==
    LET t == tasks[n]
    IN  \/ StoreCurrentNode(n, t) \/ RetrieveActive(n, t) \/ RetrieveNodeInfo(n, t)
        \/ RetrieveFailed(n, t) \/ RetrieveStored(n, t)
        \/ CleanNextNode(n, t) \/ SyncDone(n, t) \/ ListNodeUserDevices(n, t)
        \/ CleanUserDevice(n, t) \/ CleanIsLast(n, t) \/ CleanUserData(n, t)
        \/ deleteNodeConnections(n, t) \/ AnnounceCleaned(n, t) \/ CleaningDone(n, t)

Next ==
    \/ \E k \in Slots : ClientRequest(k) \/ Watchdog(k) \/ LoginRejected(k) \/ ClientStep(k)
    \/ \E n \in Nodes : SyncCluster(n) \/ SyncStep(n) \/ Crash(n) \/ ColdStart(n) \/ Expire(n)

Spec == Init /\ [][Next]_vars

\* Tasks run to their end on a node that is up, the interval timer of a node
\* fires again and again, and Redis expires the keys nobody refreshes.
Fairness ==
    /\ \A k \in Slots : WF_vars(LoginRejected(k) \/ ClientStep(k))
    /\ \A n \in Nodes : WF_vars(SyncCluster(n)) /\ WF_vars(SyncStep(n)) /\ WF_vars(Expire(n))

FairSpec == Spec /\ Fairness

----------------------------------------------------------------------------
(* Properties. *)

Connected(n, u, d) == \E c \in DEVICES[n][u] : c.device = d

\* The connections of a user on a node have distinct sockets and distinct
\* devices, although addUserDeviceConnection drops only the first match.
UniqueConnections ==
    \A n \in Nodes, u \in Users : \A c1, c2 \in DEVICES[n][u] :
        c1.socket = c2.socket \/ c1.device = c2.device => c1 = c2

\* The close of a socket, however late, takes no other socket's connection
\* with it: removeUserSession removes by device, and a device that was taken
\* over by a newer socket is not the closed socket's any more.
CloseIsLocal ==
    [][\A s \in open \ open' : phase' = phase =>
         \A n \in Nodes, u \in Users : \A c \in DEVICES[n][u] :
            c.socket # s /\ c.device # HttpDevice => c \in DEVICES'[n][u]]_vars

\* Every device in sama-user-devices has a sama-user-data record that names
\* a node, which lists it in sama-node-users and either has a connection of
\* it or is down and waits for the cleaning.
NoGhosts ==
    Quiet => \A u \in Users : \A d \in userDevices[u] :
        \E n \in Nodes :
            /\ userData[u][d] = n
            /\ <<u, d>> \in nodeUsers[n]
            /\ phase[n] = "down" \/ Connected(n, u, d)

\* Every connection of a node is in the three records the other nodes and
\* the cleaning rely on.
ConnectionsRegistered ==
    Quiet => \A n \in Nodes, u \in Users : \A c \in DEVICES[n][u] :
        c.device # HttpDevice =>
            /\ c.device \in userDevices[u]
            /\ userData[u][c.device] = n
            /\ <<u, c.device>> \in nodeUsers[n]

\* Every device that has an open connection on some node is in
\* sama-user-devices.
DevicesListed ==
    Quiet => \A n \in Nodes, u \in Users : \A c \in DEVICES[n][u] :
        c.socket \in open /\ c.device # HttpDevice => c.device \in userDevices[u]

\* What was announced last for a user agrees with the records.
StatusExact ==
    Quiet => \A u \in Users : status[u] = "online" <=> userDevices[u] # {}

\* Nothing in Redis names a node that stays down: the other nodes find it
\* through sama-node-users and clean it.  That needs every record to be in
\* sama-node-users, which overlapping client operations do not guarantee
\* (ConnectionsRegistered); with one client operation at a time it holds
\* wherever a crash interrupts that operation, a sync or a cleaning.
DestroyedNodesCleaned ==
    \A m \in Nodes : <>[](phase[m] = "down") =>
        <>[](/\ nodeUsers[m] = {}
             /\ \A u \in Users, d \in AllDevices : userData[u][d] # m)
=============================================================================
