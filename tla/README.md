# Verification of sama-server

TLA+ models of sama-server, a chat server for one or several Node.js nodes that
share MongoDB and Redis, with the TLC runs that check them and the TLAPS proofs
that hold for every instance. `PROJECT.json` lists components, runs, mutants,
findings, hazards and theorems, and maps every definition to source lines.

## The system

| Part | State | Operations | What is hard |
|---|---|---|---|
| Session service (`services/session`) | `SESSIONS`, `DEVICES` in memory; `sama-node-users`, `sama-user-devices`, `sama-user-data` in Redis | login, connect, logout, close, delete, REST bind and unbind, watchdog, listing | several Redis commands per operation, awaits between them, devices that move |
| Cluster manager (`cluster/cluster_manager.js`, `services/cluster_node`) | `sama-node-data` with a time to live, the mesh of sockets between nodes | cold start, periodic sync, cleaning of destroyed nodes, mesh handshake and reconnect | crashes between commands, decisions on stale reads |
| Activity manager (`services/activity_manager`) | who observes whom: two objects, or two Redis hashes | subscribe, unsubscribe, status update | two structures that must stay inverse; non-atomic edit of a list |
| Socket protocols (`networking/protocol_processors`, watchdog) | open sockets | open, packet, close, ping | a close during any other operation |
| Packet delivery (`networking/packet_manager.js`) | none of its own | deliver to local and remote devices, store, push | stale listings, lost packets |
| Conversations (`services/conversation`, `conversation_participants`) | participants, owner, `subscribers_count` | create, edit, subscribe, unsubscribe, delete | values read, changed and written back |
| Messages, read status, reactions | messages and a status per reader | create, edit, read, delete, react, list | find, then insert; reads out of order |
| Encryption keys, user tokens | one-time keys, tokens | register, request; create, update | find, then change |
| Contacts, block list, push queue, operation log | one document each | single updates | little interaction |
| Routing, validation, storage, statistics, start | none that matters here | | |

A client logs in through a controller, which calls an operation, which calls the
session service and asks for an announcement. The announcement goes to the
observers that the activity manager knows, on whatever node they are; the
session service's records tell which. The cluster manager removes the records
of nodes that died and announces their users offline. So the records in Redis
are what everything else trusts, and they are modelled first.

## Modules

| Module | Models |
|---|---|
| `Subscriptions` | what the activity manager promises (abstract specification) |
| `ActivityStandalone` | the activity manager of a single node |
| `ActivityCluster` | the same on Redis, command by command |
| `SessionRegistry` | session service in cluster mode, login to close, cluster sync, cleaning, cold start, crash |
| `ActivityStandaloneProofs`, `SessionRegistryProofs` | theorems |
| `MC...` | constants and symmetry for TLC |

**Steps.** Node.js runs a block of code until the next `await`. One action is
one such block: each Redis command, or `MULTI` transaction, is an action, and so
is each block that edits the maps of the node. A task is a record with a program
counter `pc` and the local variables that survive an await. A node has one Redis
client (`lib/redis.js`), which answers commands in the order they were issued;
a task waits for one command at a time, so the waiting tasks of a node take
turns. `SessionRegistry` keeps the order in `ahead`: a task that issues a command
comes after the tasks of its node that wait already. Tasks of different nodes
interleave freely.

### Activity manager

`ActivityStandalone` has `SUBSCRIBED_TO` and `SUBSCRIBERS` as in
`store/activity.js`, and `tasks`, the requests that wait for the database.
Whatever comes after that wait is synchronous, so it is one action: `Subscribe`,
`SubscribeRejected`, `Unsubscribe`, `UpdateOnline`, `UpdateOffline`.
`ActivityCluster` has the two hashes and one action per `hGet`, `hSet` and
`hDel`; `MaxOverlap` bounds the operations in flight.

### Session registry

| Variable | Code |
|---|---|
| `SESSIONS`, `DEVICES` | `store/session.js`; `DEVICES[n][u]` is the list of node `n`, as a set |
| `nodeUsers`, `userDevices`, `userData`, `nodeData` | the four Redis records; of `sama-user-data` the NODE field |
| `open`, `phase`, `accounts` | the sockets, whether a node runs, the user documents |
| `status` | the last activity status announced for a user |
| `tasks` | one slot per client operation, and one task per node for its sync |
| `ahead` | the order of the commands in a node's Redis client |

| Actions | Code |
|---|---|
| `Login`, `LoginRejected`, `FindUser`, `LoginAccepted`, `StoreListDevices`, `addUserDeviceDataTransaction`, `AnnounceOnline` | `operations/user/auth`, `connect`, `storeUserNodeData` |
| `Close`, `Logout`, `LogoutRemove`, `AnnounceOffline` | `onClose`, `operations/user/logout` |
| `RemoveDevice`, `ReadEndpoint`, `DeleteExtraParams`, `RemoveFromNode`, `ListLeftDevices` | the five commands of `removeAllUserDeviceData` |
| `ListUserDevice`, `FilterRead`, `FilterCheck`, `removeAllUserDeviceDataTransaction` | `listUserDevice` and the repair in `filterActualDeviceIds` |
| `HttpRequest`, `HttpUnbind` | a REST request |
| `WatchdogPing`, `WatchdogAlive`, `WatchdogClose`, `WatchdogRemove` | `watchdogPingSocket` |
| `DeleteUser`, `removeAllUserSessions` to `DeleteAccount` | `operations/user/delete` |
| `SyncCluster` to `SyncDone`; `RetrieveFailed` when a key expires between KEYS and its `hGetAll` | `#syncCluster`, `#connectToExistingClusterNodes`, `retrieveActive` |
| `ListNodeUserDevices` to `CleaningDone`, `ColdStart` | `cleanDestroyedNodeData`, `startSyncingClusterNodes` |
| `Crash`, `Expire` | the process and Redis (external) |

`Allowed` says what clients and crashes may do in a run (`Behaviours` explains
each word); what the server does in answer is always complete. With `"overlap"`
absent a new operation starts only when no other is in flight; such a run asks
whether an operation is right by itself, over any sequence of operations.

Abstractions: one organization; the inactive flag beside the NODE field is left
out; the mesh may know any other node (`RetrieveStored`); `hSet` and `expire` of
`sama-node-data` are one step; a node runs one sync at a time, and a node that
is up refreshes its key in time; an announcement is one step. A sync that throws
leaves the node up, as in production, where unhandled rejections are only
logged; elsewhere it ends the process, which is a `Crash`. When several replies
arrive together, their continuations are taken to run in the order of the replies
and each command to be issued before the next reply is used. One watchdog task
stands for one connection of the snapshot that `watchdogPingSocket` goes through.

## Runs

| Run | Shows |
|---|---|
| `activity_standalone` | two waiting requests, three users: the two objects stay inverse, updates reach exactly the observers |
| `activity_cluster_serial` | without overlap the Redis version keeps the same promise; its subscribe is an unsubscribe and then a subscribe |
| `registry_serial` | every connection is in all three records: two users, two devices, two nodes, crashes and restarts |
| `registry_mid_crash` | no device in `sama-user-devices` without its other records and a connection (or a node that is down), for any order of logins, replaced sockets and moves, with a crash between any two commands |
| `registry_status` | the announced status agrees with the records when clients close before they log in again |
| `registry_overlap` | two overlapping operations, two devices: connections stay unique, a close takes only its own connection |
| `registry_cleaning` | a node that stays down is eventually cleaned out of Redis, if client operations do not overlap one another; crashes, syncs and cleanings overlap them and each other |

Five runs end in a counterexample, each a disagreement between the code and
what the repository says of it (quoted in `PROJECT.json`, "findings"):

| Run | Counterexample |
|---|---|
| `activity_cluster_overlap` | an unsubscribe that has read no target deletes the one a subscribe of the same user stores meanwhile; the user stays in a list of `sama:subscribers` |
| `registry_reauth` | a second login on a socket with the same device unlists the device |
| `registry_move` | the close of the old socket unlists a device that moved to another node |
| `registry_late_close` | the close of a replaced socket announces a connected user offline |
| `registry_login_in_close` | the removal of a closed connection takes the record of a new login of the device out of `sama-node-users` |

The last one is why `registry_cleaning` has a single slot for client operations:
a connection that is missing in `sama-node-users` is not found by a cleaning when
its node crashes, so with two slots `DestroyedNodesCleaned` fails.

More is found by widening `Allowed`. With `"overlap"` the listing at the end of a
removal drops a device that logs in meanwhile (`DevicesListed`). With `"restart"`
beside `"overlap"` and `"sync"` a cleaner with a stale list deletes the fresh
records of a node that restarted, so that after its next crash nobody finds its
`sama-user-data` (`DestroyedNodesCleaned`). A socket that closes while its
login waits for Redis leaves a record when the device was listed before and the
login waits in `removeAllUserDeviceData` (`NoGhosts` with `"overlap"`); if it was
not listed, the order of the commands of the node prevents that. (One that closes
while the login waits for the database is registered all the same, until the
watchdog removes it.) Account deletion
combined with a crash in its middle leaves records too (`NoGhosts`);
`registry_overlap` is the run that deletes accounts. `CloseIsLocal` speaks of
closes only: a logout and the watchdog remove a device they looked up before an
await.

**Bounds.** Two nodes are enough for every "here or elsewhere" decision, since a
node only compares an endpoint with its own. Three sockets, two of them on one
node, give a replaced socket and a moved device at once. Two devices give a
removal that is not the last; two users (`registry_serial`) show that one user's
operations leave the other's records alone. `registry_overlap` has one node,
two devices beside the REST device, two sockets and two slots: the maps it is
about belong to one node, and a socket may change its device and a device its
socket. Symmetry is used where all permuted values are
interchangeable, and never with liveness.

**Fairness.** `FairSpec` assumes that a task runs to its end while its node is
up (an awaited command is answered), that the interval timer of
`startSyncingClusterNodes` fires again and again, and that Redis expires keys
that are not refreshed. Nothing is assumed of clients, crashes or restarts.

**Mutants.** Every property has a variant of the code, defined beside the action
it replaces, under which TLC finds the property violated.

## Theorems

| Theorem | Statement |
|---|---|
| `ActivityStandaloneProofs!TypeCorrect` | `Spec => []TypeOK` |
| `ActivityStandaloneProofs!InverseAlways` | `Spec => []InverseRelations` |
| `ActivityStandaloneProofs!ImplementsPromise` | `Spec` implements `Subscriptions` |
| `SessionRegistryProofs!TypeCorrect` | `Spec => []TypeOK` |
| `SessionRegistryProofs!ConnectionsUnique` | `Spec => []UniqueConnections` |

They hold for any sets of nodes, users, devices, sockets and slots and any
`Allowed`, from the assumptions named in the modules: `None` and the REST device
are no ordinary values, a socket belongs to one node.

*Activity.* The type invariant and the inverse relation together are inductive.
The refinement follows: `SUBSCRIBED_TO` is the abstract `target`, and the set an
update is sent to, read from `SUBSCRIBERS`, is the set of its observers because
the two are inverse.

*Session registry.* `TypeOK` alone is not inductive: an action applies a map to
`t.user` or `t.dev`, which are `None` in a task that has not reached the step.
`WellFormed` says which variables of a task are assigned at which `pc`; it is
the strengthening for both theorems. The order of the commands (`ahead`) is not
used: no step of the proofs depends on it. `UniqueConnections` needs it too: the
argument is that `addUserDeviceConnection` drops the one connection of the
socket and the one of the device, which are all there are if connections were
unique before. There is one lemma per group of actions, and the lemmas
`WriteStep`, `ReadStep`, `BlockStep`, `BeginStep`, `AnnounceStep` for the shapes
they share.

*Only model-checked:* liveness (`DestroyedNodesCleaned`), the properties of the
records (`ConnectionsRegistered`, `NoGhosts`, `StatusExact`), which need an
invariant about every intermediate state of the Redis commands, `CloseIsLocal`,
and everything about `ActivityCluster`.

## Not modelled, and the plan

In this order:

1. `Conversations`: participants, owner, `subscribers_count`, private
   conversations, with concurrent operations; the abstract specification is the
   set of participants.
2. `ClusterMesh`: handshake, duplicates, reconnect and its queue; then composed
   with the sync of `SessionRegistry`.
3. `PacketDelivery`: delivery to devices listed by the registry, operation log
   and push; late and lost packets.
4. `Messages` with read status and reactions; `PreKeys`; `UserTokens`.
5. `SessionStandalone`, REST logout, the inactive flag; a late sync.
6. Theorems: `CloseIsLocal` as an action property, the serial refinement of
   `ActivityCluster`, the invariants of `Conversations`, records of a serial
   `SessionRegistry`.

Out of scope: request validation and routing (tables without state), storage,
statistics, mail and push gateways (input and output), user code of conversation
handlers.
