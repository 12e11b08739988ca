# SentryCache in TLA+

SentryCache keeps a cache sidecar (Redis or memcached) next to every pod of a
deployment and, when pods come and go, copies hot keys between sidecars so that
the hit rate does not collapse. This directory models the program as TLA+
modules, model-checks them with TLC on small instances and proves the most
important facts with TLAPS for every value of the constants. Paths below are
relative to the repository.

## 1. The system

| Component | State it keeps | Operations | Talks to |
|---|---|---|---|
| Controller, `controller/main.py` | `self.pods` (name → `PodInfo`); the locals of the running handler and of each prefetch thread | `watch_pods`, `on_pod_event`, `on_pod_terminating`, `_prefetch_into`, `_migrate_out` | API server (watch), every sidecar (direct pod IP), L2 |
| Memcached client, `controller/memcache_backend.py` | one socket, replies read up to a terminator; kept after a timeout, and after the server closed it | `get_with_meta`, `set_with_meta`, `list_keys_with_size`, `ping` | a memcached sidecar |
| L2 metadata Redis (`manifests/l2-*.yaml`, no persistence) | `pods:D`, `versions:D`, `replicas:D:k` (controller); `nodemap`, `node_zone`, `versionmap`, `replicas:V:k` (proxies) | HSET, HDEL, HGETALL, SCAN | written by controller and proxies |
| Sidecar proxy, `sidecar/proxy/go/proxy.go` (and the Python prototype) | per connection: one request in flight; a shared L2 connection under a mutex | command tables and rewriting, RESP reading and writing, async registration of writes, peer fetch on a miss, write-back | application, local Redis, L2, other proxies' peer port |
| Load generator, `eval/exp_5_4_migration/loadgen.py` | the list of routable pods, refreshed every second | `fetch_pod_ips`, `pick_pod` | API server, applications |
| Evaluation services, `eval/*/app.py`, and the stale-read probe | none (cache-aside over the sidecar); a chain has one cache per layer, a timeline a DB per version | get, on a miss produce or call the next layer, set | sidecar or proxy, next layer |
| Kubernetes (external) | the pods, their readiness, the watch streams | pod lifecycle, ADDED/MODIFIED/DELETED, stream timeout | controller, load generator |

`controller/{impact_estimator,k8s_watcher,l2_index,prefetch,version_tag,migration}.py`
and `sidecar/lfu_snapshot.lua` contain a comment and no code.

Interaction. The controller's one watch thread handles pod events strictly in
order and drains a leaving pod *inside* the handler, so a migration of up to
`MIGRATE_GRACE_S` holds back every later event. Each pod that becomes Ready
gets a thread of its own for the prefetch; it shares L2 and the sidecars with
the watch thread and nothing else tells it that its target left. Controller and
load generator never talk: each sorts the IPs it knows and indexes them with
the same hash, so a copied key is useful only if both have the same pods in
mind. The watch is a sequence of 60 s streams that each begin with an ADDED for
every existing pod; what happens between two streams is known only from that
relist, and a pod that disappeared there is never mentioned again.

What is hard here: the interleaving of watch thread, prefetch threads, cluster
and clients; events that are handled long after they were sent; repeated events
of one pod; streams that end with events unread; calls that raise half-way
through a handler; restarts of controller and L2; a count of successes used in
place of the successes; replies that come after their reader gave up; commands
with several replies, or none, through a proxy that pairs one with one; payload
bytes that look like framing; a rollout over one cache. `hazards` in `PROJECT.json` lists them line by line
with the properties that watch over them.

What makes each component correct:

* controller's view: after all events, `self.pods` is the cluster; no pod stays
  in it that is gone, except one whose DELETED the watch lost;
* L2: `pods:`/`versions:` agree with `self.pods`; no record of a forgotten pod;
  Sk(k) names only pods that held k; a Ready pod is eventually registered, a
  deleted one eventually forgotten;
* migration: keys end up where requests for them now go; keys whose last copy
  leaves go first;
* prefetch: only keys routed to the arriving pod; over memcached, each entry
  stored once, as the source had it, and no more counted than stored;
* proxy: every value in a reply was written under the key and version of the
  request; a holder of a key is in the index or about to be; a read misses only
  if no sibling can help; every request is answered; reply n answers command n;
  the application cannot tell the proxy from a Redis of its own;
* services: no answer of another version's payload, no error without a failed
  call, one production per key while the caches hold, an answer to every request.

## 2. Modules

| Module | Models |
|---|---|
| `HashRing` | the sorted-IP ring: `RingIndex` (`ring.index`), `Slot` (`hash % n`), `HashesTo` (prefetch filter), `HashTarget` (migration receiver, `pick_pod`) |
| `Controller` | the controller with the cluster, watch stream, sidecars and L2 around it |
| `MCController` | instances for TLC: pods `a b c`, keys `x y`, initial clusters and caches, a hash that separates the keys |
| `SidecarProxy` | the proxies of several pods and versions, with the Redis next to each, L2, the applications and the pods' lifecycle around them |
| `MCSidecarProxy` | instances for TLC: pods `p1`..`p5`, one application connection each, versions, symmetries |
| `L2Call` | what `L2Client.call` promises its callers: the abstract specification |
| `L2Conn` | `L2Client.call`: mutex, shared connection, deadline, two tries, reset |
| `MCL2Conn` | instances for TLC: goroutines `g1`.., values `x`.. |
| `Transfer` | what a transfer between two memcacheds promises: the abstract specification |
| `MemcachedTransfer` | the prefetch over memcached: snapshot and transfer, over three sockets with what was sent and what was not read |
| `MCMemcachedTransfer` | instances for TLC: keys `x y z` in two slab classes, entries `e1`..`e3` |
| `CommandRewrite` | the command tables and `rewriteCommand` |
| `RedisServer` | a Redis with transactions, WATCH, SUBSCRIBE and CLIENT REPLY OFF, as an operator: arities, the last value of an MSET, what a transaction leaves step by step (`After`) |
| `AppSession` | the connections of an application through its proxy, next to the same commands on a Redis without one |
| `RespFraming` | `readResp`, `encodeArray`, `encodeBulk`, `argvFromParsed` over streams of symbols |
| `SessionWire` | `AppSession`'s replies and commands in that framing |
| `MCAppSession` | the instance for TLC: connections `c1 c2`, a command of each table |
| `CacheAside` | the evaluation services: cache-svc, chain, timeline under rollout, and the probe's rows |
| `MCCacheAside` | the three services for TLC |
| `ControllerProofs`, `ControllerViewProofs`, `SidecarProxyProofs`, `L2ConnProofs`, `MemcachedTransferProofs`, `AppSessionProofs`, `SessionWireProofs`, `CacheAsideProofs` | the theorems |

`Controller` extends `HashRing`. Its state and the code:

| Variable | Code |
|---|---|
| `phase` | what the API server says of a pod: `pending` (no IP), `booting` (IP, some container not ready), `ready`, `leaving` (deletion timestamp, still ready), `stopping` (deletion timestamp, not ready), `gone` |
| `stream`, `events` | the open `w.stream` request and what it has sent and the thread not yet taken |
| `pods` | `self.pods`: `unknown`, or the `ready` flag of the `PodInfo` |
| `pc`, `leaving`, `survivors`, `snap`, `mandatory`, `optional`, `unswept` | where the watch thread is in `on_pod_terminating` / `_migrate_out` / `l2_remove_pod`, and the locals it needs there |
| `prefetch` | per thread: the step of `_prefetch_into`, `target`, `siblings[0]` (`source`), `siblings`, `topn`, the loop index and `ok` |
| `l2pods`, `l2versions`, `sk` | fields of `pods:D`, `versions:D`, `replicas:D:k` |
| `cache` | the keys in each pod's sidecar |
| `held`, `missed`, `changes`, `faults` | history (keys a sidecar ever had; pods whose DELETED is lost) and counters of the bounds |

Actions are the calls the code makes on other processes, in the code's order:
`HandleEvent` (`watch_pods` body with all of `on_pod_event`: `self.pods`, two
HSETs, the spawn, the branch on `deletion_timestamp`), `OnPodTerminating` (the
early return, the choice of survivors), `SnapshotLeaving`, `ScoreKey` (one
HGETALL), `StartMoving` (the sort), `MoveKey` (one DUMP/RESTORE and its HSET),
`StopMoving` (end or deadline), `Unregister` (two HDELs and the SCAN),
`SweepKey` (one HDEL), `ForgetPod` (the pop); `ProbeTarget`, `SnapshotSibling`,
`CopyKey`, `RegisterKey` for a prefetch thread. Every call that can raise has
its failing outcome in the same action: caught where the code catches it,
otherwise `Interrupted`: the handler is abandoned, the stream is dropped with
the events unread in it, and `StreamOpen` relists. `WatchError`, `Restart` and
`L2Restart` are the failures of whole processes.

Abstractions: a pod is one incarnation (names are not reused, as with a
ReplicaSet); versions are constants of a pod; key scores are data, so any order
the sort allows is possible; `siblings[0]` is any eligible sibling (it is the
first in dict order, which is the order in which events happened to arrive);
snapshots are complete (below `max_keys`); a memcached or Redis transfer
of a key is one step with its outcome (call by call it is `MemcachedTransfer`).

`SidecarProxy` stands alone: controller and proxies share nothing but the Redis
instances (the proxies' hashes in L2 have other names). Its state and the code:

| Variable | Code |
|---|---|
| `status`, `ip` | the pod and its proxy process: `new`, `up`, `down` (restarting), `gone` |
| `l2ok` | `l2 != nil` in the proxy |
| `store` | the local Redis at `tag:key`: nothing, or a string or hash with its value |
| `conn` | per application connection where `handleAppConn` is: `sent` (request read), `peers` (before `hGetAll` of the replica set), `ask` (in the loop over peers, with those left and the number asked), `writeback` (before the SET), `reply` |
| `regs` | `registerWrite` goroutines that have not run |
| `nodemap`, `sk` | L2: the IP in the endpoint of each pod, the fields of `replicas:V:k` |
| `written`, `owed` | history: what applications wrote; the siblings that had the key, indexed and reachable, when a request was sent |

Actions: `Request` (the application), `Upstream` (the rewritten command's round
trip, the spawn of the registration, the test for a miss), `GetPeers`
(`hGetAll`), `AskPeer` (`hGet` of `nodemap`, the dial and the round trip to the
peer; any error continues with `NextPeer`), `WriteBack` (SET, spawn), `Reply`,
`RegisterWrite` (the goroutine's HSET), `Boot` (`main`: PING, `selfRegister`).
Around them `Crash`, `PodEnds`, `RedisRestart`, `Evict`, `L2Restart`. When a
process or the Redis stops, the handlers end with it (`HangUp`). An IP may be
given to another pod once its pod is gone, and L2 is not told.

Abstractions: one command of each class that behaves differently (null bulk or
array for a miss, hash or string, in the register table or not); a hash has one
field, so its value stands for the field asked; any peer order (Go ranges over
a map, Python shuffles); the `nodemap` read and the round trip to the peer are one step (the endpoint
read cannot change but by a boot, after which the peer is asked for the same
tagged key); an L2 call either succeeds or
fails, having been applied or not (how `L2Client.call` gets there is
`L2Conn`); the value a registration stores (a time) is never read. Requests of one
connection do not overlap (the code is a serial loop).

`L2Conn` extends `L2Call`, whose variables it shares: `value` (a field in L2),
`command`, `runs`, `answers` (per goroutine: its call, how often it was
executed, what that answered), `result` (what the last call returned), `stray`
(executions still to come of calls that have returned). `L2Call` says when a
call may return what; `L2Conn` says what the code does, with the effects on
those variables but none of the guards:

| Variable | Code |
|---|---|
| `mu` | `l.mu` and who holds it |
| `pc`, `retry` | where a goroutine is in `call`, its loop variable |
| `open`, `dropped` | `l.conn # nil`; L2 has closed it |
| `sent`, `replies` | on the connection: commands L2 has not executed, replies not read (`l.r` and the sockets' buffers) |
| `abandoned` | commands on connections that `reset` closed, which L2 may yet execute |

Actions: `Call` (`hSet`, `hGet`), `Lock`, `EnsureConn` (`ensureConn`; a failed
dial returns), `Write` and `Read` (each ends well or, with `Again`, in `reset`
and `continue`, or in the error after the last try), `Returns` (with the
deferred unlock); around them `Execute`, `ExecuteAbandoned`, `ExecuteStray` and
`Restart` of L2. A write to a connection L2 has closed may seem to succeed. L2
is one field, since a command of the proxy touches one field (HGETALL one hash).
L2 is deployed without persistence, so it never answers `-LOADING`, and error
replies, which `readResp` hands over as strings, are not among its answers.

`MemcachedTransfer` also stands alone: `Controller` has the same prefetch with
the outcome of each key in one step. Its state and the code:

| Variable | Code |
|---|---|
| `pc` | the call `_memcached_snapshot` or `memcached_transfer` is in |
| `slabs`, `out` | `list_keys_with_size`: `slab_map` still to be dumped, the keys listed |
| `keys`, `key`, `got`, `n` | `memcached_transfer`: keys to come, the key in hand, its entry, the count |
| `sock`, `requests`, `replies` | per client its `_sock`, what the server has not executed, what was not read |
| `source`, `had`, `target`, `stored` | the two memcacheds, and their history |

`Sent`, `Received` and `RecvFails` are `_send` and `_recv_until` as they are: no
connection is made while there is a socket, dead or not, and whatever is first
in the stream is taken for the reply. `Received` may take more than the first
reply off the stream (the buffer ends with the call), `ReceivedCut` stops in a value that
contains the terminator. It implements `Transfer`: the refinement maps `sound`
to "no reply was late and no value was cut".

`AppSession` is `handleAppConn` seen from its two connections, where
`SidecarProxy` sees it from the peers and L2; a peer fetch is one step here and
gives any value of `PeerVals`. `Request` reads a command, rewrites it and sends
it; `Receive` reads one reply, of whichever command, and registers, fetches or
delivers; `FetchNone`, `Fetch`, `EndWriteBack` are the two ends of a miss. Its state:

| Variable | Code |
|---|---|
| `redis` | the local Redis, its transactions and what it watches |
| `plain` | no code: a Redis that gets the application's commands as they are |
| `replies` | the upstream connection of each handler |
| `handler` | where the handler is, its `argv`, the reply it will deliver |
| `indexed` | the keys `registerWrite` was called with |
| `got`, `sent` | what the application read and wrote |
| `wrote`, `fetched`, `dropped` | history |

`RespFraming` is a pure function. A stream is a sequence of symbols (heads, line
end, numbers, any other byte), so a payload may hold anything that could be
taken for framing. `ReadOne` is one call of `readResp`, with what its nested calls
give as a parameter; `Reader(depth)` is `readResp` where it calls itself to a
depth, and `ReadResp` takes the length of the stream for the depth. That this is
the recursion of the code is a theorem (`ReadRespCallsItself`). `SessionWire` states
its properties of the very replies and commands that `AppSession` has in hand: the
Redis may send any of `FramesOf(reply)`, a value being any of the constant `Payloads`
(an instance with line ends, heads and numbers among them for TLC, any streams in
the theorems).

`CacheAside`: `cache[l][db][k]` is the cache of layer `l` (the payload's version
stands for its value), `call[c][l]` the handler of request `c` in layer `l`:
`get`, `miss`, `wait` (for the next layer), `set`, `answer`; `seen` are the
rows of the probe. `Lookup`, `Synthesise`, `CallNext`, `CallReturns`,
`CallFails`, `Set` and `Answer` are the handler, `Rollout`, `Evict` and the
faults what happens around it. One model serves all services: they differ in
depth, in whether they catch errors of the cache, and in what may happen to them.

The Python prototype of the proxy takes the same steps as the Go one, and the
same modules stand for both. Where it differs: an inline command loses its
first byte (`python/proxy.py:154`), integers are read as bytes, the peer
handler does not pass on a half-close (`:473`), and its L2 client is
`redis.asyncio`.

## 3. Runs

`CHECK_DEADLOCK FALSE` everywhere: with all pods gone, or all requests of the
bound sent, the system has nothing left to do. The `controller_*` runs use
`MCController`, the `proxy_*` runs `MCSidecarProxy`, `l2_calls` `MCL2Conn`, the
`mc_*` runs `MCMemcachedTransfer`, `session` `MCAppSession`, `services`
`MCCacheAside`.

| Run | Shows |
|---|---|
| `controller_migration` | three Ready pods, overlapping caches, no failures; any order of departures, one extra fill or update: `RegistryMatchesView`, `MigrationServesRouting`, `SoleCopiesFirst` |
| `controller_faults` | two pods, one still pending; one change (flap, update, eviction) and one failure (sidecar call, L2 call, deadline, watch) anywhere, watch timeouts at any time: `GoneIsNoticed`, `ViewFollowsCluster`, `L2NamesKnownPods`, `SkBacked` |
| `controller_prefetch` | two prefetch threads, a third pod arriving, departures: `TypeOK`, `SkBacked`, `PrefetchAgreesWithRouting` |
| `controller_recovery` | fairness; two of: controller restart, L2 restart, failing L2 call: `DeletedPodIsForgotten`, `ReadyPodIsRegistered` |
| `proxy_versions` | two pods of one version and one of another, two IPs for three pods, one failure of any kind: `TypeOK`, `RepliesAreGenuine` |
| `proxy_index` | three pods of one version that come and go, two IPs, one failing call to L2 or a peer; fairness: `HoldersAreIndexed` and `MissMeansNoHolder` as long as nothing fails, `RequestsAreAnswered` always |
| `l2_calls` | two goroutines, three calls, any two failures of dial, write, deadline or L2 itself; fairness: `PromiseKept` (the refinement), `ConnInv`, `OneFailureIsAbsorbed`, `CallsReturn` |
| `mc_transfer` | three keys in two slab classes, one in a HOT queue, one with a terminator in its value; any two of refused, closed, rejected, late, cut; two changes at the source; fairness: `TransferKept` (the refinement), `SnapshotIsComplete`, `PrefetchEnds` |
| `session` | two connections, fifteen commands (one of each table, transactions, those with no reply or several), four of them in any order; fairness: `RepliesInOrder`, `Transparent`, `IndexedWasWritten`, `CommandsAreAnswered`, and of every reply and command on the way `FramesAreReadBack`, `CutFramesFail`, `CommandsAreReadBack` |
| `services` | a cache-svc, a chain of two layers, a timeline under rollout; two clients, three requests, two failures; fairness: `NoStaleReads`, `ErrorsHaveACause`, `BackendIsSpared`, `RequestsEnd` |

Runs that find the code at odds with what the repository says of it (`findings`
in `PROJECT.json`):

| Run | What happens |
|---|---|
| `proxy_hash_miss` | HGET misses, the peer is sent `HGET key` without the field: its error text is stored and returned as the value |
| `mc_late_reply` | a reply that comes after the two-second timeout stays on the socket and is read as the next key's, under which it is stored |

Other disagreements met while modelling. The modules contain them and the runs
above keep out of their way by a constant or by a condition of the property;
what to change to see them is given where it takes a run.

Controller:

* `topn[:ok]` registers the first `ok` keys, not those that were copied
  (`controller/main.py:384`): with one key evicted at the source, Sk names a pod
  that never had it. (`controller_prefetch` with `Changes = {"drop"}`,
  `MaxChanges = 1` and a hash that puts both keys into `c`'s slot violates `SkBacked`.)
* A prefetch thread registers its target in L2 after the target was swept: the
  record stays (`main.py:385`). (`controller_prefetch` with `L2NamesKnownPods`.)
* An event of a terminating pod that is already forgotten adds it again, and it
  looks like a pod that has become Ready: prefetch into a pod that is leaving
  (`main.py:469`).
* `_migrate_out` calls the Redis `transfer_keys` whatever `CACHE_BACKEND` is
  (`Backend`): with memcached nothing is migrated
  (`controller/main.py:438` against 65-66).
* Survivors are read from `self.pods` while events are unread: of two pods that
  leave together, the first one's keys go into the second
  (`controller/main.py:395` against 420-422). `MigrationServesRouting` therefore
  speaks of a controller that knows the routable pods.
* The prefetch ring is that of the spawn: of two pods that become Ready
  together, the first gets keys the load generator sends to the second
  (`controller/main.py:330` against 326-328). `PrefetchAgreesWithRouting`
  therefore speaks of an unchanged ring.
* If `l2_register_pod` raises when a pod becomes Ready, `self.pods` is already
  written and the relisted event starts no prefetch
  (`controller/main.py:267` against `README.md:44`).
* Prefetch and migration use DB 0 (`main.py:405`), although a v2 pod of the
  rolling experiment has its data in DB 1; no deployment of the repository has both.
* A transfer keeps no expiry: `RESTORE ... 0` (`main.py:154`) and exptime 0
  (`memcache_backend.py:171`).
* `number_cold` is the last line with `:number` in it
  (`memcache_backend.py:83-91`), and a slab class with none ends the loop over
  all later ones (`:134`). (`SnapshotIsComplete` without its conjunct on `Cold`.)
* A socket the server has closed is kept (`memcache_backend.py:55`): every
  later key of the batch fails.

Proxy:

* Siblings that have ended stay in the index and use up the three tries
  (`proxy.go:516`). (`proxy_index` with five pods, five requests and
  `Faults = {}`; the five are the fewest that exhaust `PeerLimit = 3`, and take
  longer than the other runs.)
* MSET and MSETNX are not in `writeRegister` (`Ops`): the keys they write are
  never indexed (`sidecar/proxy/go/proxy.go:89` against 478).
* A miss is the reply `$-1`; HGETALL, HMGET, LRANGE and the ZRANGE family,
  though in `readMiss`, reply an empty array and never fetch from a peer
  (`proxy.go:617` against 10-11).
* `manifests/home-timeline-sentrycache.yaml:44` binds both ports of the proxy
  to 127.0.0.1 (`PeerPortOpen`): as deployed there, no peer can be reached, and
  `proxy_index` with `PeerPortOpen = FALSE` violates `MissMeansNoHolder`.
* DEL deletes here only: the next GET misses and fetches the old value from a
  sibling (`proxy.go:617`).
* WATCH is passed through (`proxy.go:79`) while SET gets the prefix: the
  watched key never changes, and an EXEC succeeds that should have failed.
  EVAL's keys go without the prefix, too, and PFCOUNT is taken for OBJECT
  (`proxy.go:306`): its first key goes without. (`Transparent` without `Unprefixed`.)
* A SET in a transaction is registered when it is QUEUED (`proxy.go:610`): after
  DISCARD, or an EXEC that fails, the index has a key that was never written.
  (`IndexedWasWritten` without `dropped`.)
* SUBSCRIBE to several channels has several replies, of which the handler reads
  one: from there on replies are off by one (`proxy.go:604`); after CLIENT REPLY
  OFF it waits for one that never comes.
* An error reply of L2 is parsed like a string (`proxy.go:214`): `hGet` would
  hand it over as an endpoint, and the dial would fail.

Services:

* A call that fails once is cached as `err_k` in every layer above the failure,
  without expiry, and answered from there on (`eval/exp_5_2_chain/app.py:69`).
  `ErrorsHaveACause` bounds it to keys whose call failed.

Bounds. Two keys are enough for one to be copied and one not, to be in
different slots, to be mandatory and optional; three pods for a receiver that
is itself leaving or a ring without one of its members. `MaxEvents` caps the
undelivered events (the cluster waits when it is reached, it is not told
apart from a slow cluster); `MaxChanges` and `MaxFaults` cap changes of the
environment that no property needs repeated; the phases of a pod only move
forward, so departures need no cap. `Threads` is the number of prefetch threads
alive at once: the spawn waits for a free slot, so runs with prefetch give one
slot per pod that can arrive in them. `Timeouts` switches the 60 s end of the
stream off where a run is about something else. For the proxies one key is
enough, since no step touches two (that keys do not mix is `GenuineReplies`, for
any number); two versions and fewer IPs than pods make a stale `nodemap` entry
lead to a pod of the other version; `MaxRequests` is three: a write, a
fetch of it by a sibling, and one request racing them.
For `L2Conn`, two goroutines and three calls let a call inherit the connection
of one that failed, and two failures exhaust both tries of a call.
`MemcachedTransfer` needs a key after the one whose reply is late, a second
slab class for `NextSlab` to leave out, a HOT item, and a value with a
terminator: three keys have them all. `session` has four commands: MULTI, a
write, a write by the other connection, EXEC; `PeerVals` has one value, since
only that a fetched value is another one matters. `services`: three requests of
two clients let a request of v1 overlap the rollout and one of v2 read after it,
and two layers are one that calls and one that is called.

Fairness (`FairSpec`): weak fairness of the watch thread and of each prefetch
thread (they are OS threads whose calls have 2 s timeouts), of the end of a
watch request (`timeout_seconds=60`) and of the next request (the `while` loop
of `watch_pods`, which catches everything). Nothing is assumed of the cluster:
a pod may stay in a phase for ever. `SidecarProxy`'s `FairSpec`: weak fairness
of each connection's handler and of each `registerWrite` goroutine (the Go
scheduler runs them, and each round trip ends by a reply, a closed connection or
a deadline: `peerFetchTO`, L2's two seconds); none of applications or pods. `L2Conn`'s: weak fairness of each goroutine and of
L2 on an open connection (two-second deadlines), strong fairness of `Lock`: a
`sync.Mutex` in starvation mode hands itself to the waiting goroutines in turn.
`MemcachedTransfer`'s: the thread, and memcacheds that answer what they have.
`AppSession`'s: weak fairness of each connection's handler. `CacheAside`'s: weak
fairness of each request's handler and of the answer (threads of an HTTP server
whose calls have timeouts).

Every property has a mutant in `PROJECT.json`: a plausible bug in a mapped
definition (a missing pop, a missing HDEL, an unsorted list, a ring without the
filter...) with which the same run finds the property violated.

## 4. Proofs

TLAPS checks, for any finite set of pods and keys, any hash, any number of
threads, changes and failures (from `RingAssumption` and
`ControllerAssumption`, `ProxyAssumption` for the proxies; the other modules'
assumptions are named below):

* `ControllerProofs!EveryKeyHasOneOwner`: in a non-empty ring exactly one pod
  owns a key. Positions are the cardinalities of the pods below, so they lie in
  `0..n-1` (`RingIndexRange`) and are distinct (`RingIndexInjective`); an
  injection between finite sets of one size is onto.
* `TypeCorrect`: `Spec => []TypeOK`, with the strengthening that `survivors` is
  not empty while keys are moved (otherwise `HashTarget` picks from nothing).
* `GoneAlwaysNoticed`: `Spec => []GoneIsNoticed`. The inductive invariant says
  of *every* gone pod that it is missed, or its "gone" event is queued, or it
  has no event queued and is unknown or in the handler; and that "gone" is the
  last event of a pod in the queue and only a gone pod has one. A handler that
  is interrupted, a stream that is dropped and a controller that restarts all
  put the gone pods into `missed`.
* `L2Clean`: without prefetch and without controller restarts,
  `Spec => []L2NamesKnownPods`, whichever call fails. The inductive invariant
  adds that survivors stay known during a migration and are not the leaving
  pod, and that during the sweep the leaving pod is out of `pods:`/`versions:`
  and every Sk that still names it is in `unswept`: that is why `self.pods` is
  written before the HSETs and popped after the HDELs.
* `MigrationBacksSk`: without prefetch, `Spec => []SkBacked`; with prefetch it
  is false once a copy fails (section 3).
* `ControllerViewProofs!ViewFollows`: `Spec => []ViewFollowsCluster`. The inductive
  invariant (`ViewInv`): while the stream is open, of every pod that is not missed
  either the last queued event says what the pod is now, or none is queued and
  `self.pods` says it, or the pod is the one in the handler; `PhaseInv` adds
  that a pod does not return from `leaving`, so no event is newer than it says.
* `PrefetchAgrees`: `Spec => []PrefetchAgreesWithRouting`. `TopnInv`: what a
  thread's list holds hashes to its target in the ring it was filtered with.
* `RegistryMatches`: `Spec => []RegistryMatchesView`. `RegistryInv`: until a call
  fails, both lists are `self.pods`, but during the sweep without the leaving pod.
* `SoleCopiesGoFirst`: unless L2 restarts, `Spec => SoleCopiesFirst`. `RankInv`: a
  key is in one of the three lists, and what was spare when it was scored stays
  so, since meanwhile Sk only grows but for the leaving pod.
* `MigrationServes`: for Redis sidecars, without prefetch and evictions
  (`OnlyMigrates`), `Spec => []MigrationServesRouting`. `ServeInv`: in an undisturbed
  migration each key of the leaving pod is still to be scored or moved, or is at
  its pod in the ring of the load generator. That this ring is the one of the
  survivors (`QuietRing`) is `ViewInv`: nothing reads events while a pod is
  drained, so if none are queued the cluster is what `self.pods` says.
* `ProxyTypeCorrect`: `Spec => []TypeOK` for the proxies. The strengthening
  (`Sound`) is what a handler knows of its request in each state: an argument
  for a write, a command of `readMiss` from `peers` on, a value in `writeback`.
* `GenuineReplies`: if applications use strings only
  (`Ops \subseteq {GET, SET, DEL, MSET}`), `Spec => []RepliesAreGenuine`, for any
  pods, IPs, versions and failures. The inductive invariant says that *every*
  Redis holds under every `tag:key` only a string written there by some
  application, and every connection carries such a value: the tag travels with
  the key to the peer, so it does not matter which pod is behind a stale
  `nodemap` entry. With hashes it is false (`proxy_hash_miss`).
* `IndexedHolders`: if no application uses MSET, `Spec => []HoldersAreIndexed`.
  The inductive invariant adds that a Redis holds only keys of its proxy's tag,
  nothing after the pod has ended, and that L2 is in use by every running
  proxy, as long as nothing fails.
* `MissesAreReal`: if the peer port is open, applications use neither DEL nor
  HGETALL and a pod has at most `PeerLimit` siblings, `Spec => []MissMeansNoHolder`.
  The inductive invariant (`MissInv`): as long as nothing fails running pods have
  distinct IPs (`Reachable`); a sibling that was owed to a read still holds the
  key, is in its Sk and at the IP in `nodemap`, or is gone (`Owes`); and those still
  running are among the peers not yet asked, no more than the loop has turns
  left (`Asks`). Each hypothesis is needed: a DEL, an HGETALL, a loopback
  `LISTEN_HOST` or a fifth pod each make it false.
* `ConnInvariant`: `CSpec => []ConnInv`, for any goroutines, values, number of
  tries, calls and failures (`CallAssumption`, `ConnAssumption`). It is inductive
  as it stands: who works holds the mutex; what L2 has executed for a call, may
  yet execute from closed connections and has on the open one is no more than
  the call has written; and there is one command or one reply on the connection,
  the holder's.
* `CallKeepsPromise`: `CSpec => PromiseKept`, the refinement. With `ConnInv`,
  every `Execute` is a `Run` of the holder's call, every return an `End` whose
  answer is among `answers` and whose executions add up to `Attempts` at most,
  and every other step leaves the promise alone. Without `reset` after a
  deadline it fails: a late reply would answer the next caller.
* `FailureIsAbsorbed`: with `Attempts >= 2`, `CSpec => []OneFailureIsAbsorbed`.
  `Absorbed` counts: a connection closed under the goroutines has taken one
  failure, a second try another, and both at once two.
* `TransferIsKept`: `Spec => TransferKept`, the refinement of `Transfer`, for any
  keys, slab classes, limits, failures and changes (`TransferAssumption`). The
  inductive invariant (`TransferInv`): a key is asked for once and stored once
  (`OnceInv`); the count is at most the keys stored, less the STORED lines still
  to be read (`CountInv`); and as long as no reply was late and no value cut, at most one
  command or reply is on each connection of the transfer and it is about the key
  in hand (`InTurn`), and every entry on the way is one the source had
  (`Faithful`).
* `RepliesStayPaired`: `Spec => []RepliesInOrder`, for any connections, commands,
  keys, values (`SessionAssumption`). The inductive invariant (`PairInv`): on a
  connection without SUBSCRIBE, every reply before the handler's command has
  been delivered, and the upstream holds at most one reply, of the command in
  hand or of the write-back, in the state that will read it.
* `FreshReads`: `Spec => []NoStaleReads`, and `CausedErrors`:
  `Spec => []ErrorsHaveACause`, for any clients, keys, layers, services and
  failures (`CacheAsideAssumption`). The inductive invariant follows a value from
  the cache through the hands of the layers to the probe: a DB holds payloads of
  its version or errors of keys whose call failed (`CacheInv`), a handler holds
  what a DB of its version may hold (`HandInv`), a layer waits for a call about its own key and
  version (`WaitInv`), rows were answers (`SeenInv`); and a service that is
  rolled out calls no other (`VersionInv`).
* `SnapshotCompletes`: `Spec => []SnapshotIsComplete`. As long as nothing failed or
  changed at the source, its socket holds the one command or reply that is awaited
  (`AskedInv`), and a slab class with entries is either still to be dumped, with
  its number of lines as `slabs` has it, or all its keys are listed (`ListedInv`).
* `ProxyIsTransparent`: `Spec => []Transparent`. The inductive invariant
  (`ClearInv`): until a value is fetched, WATCH or PFCOUNT sent, the two servers are
  in step (`Sync`: the prefixed keys hold what the plain ones do, the same
  connections are in the same transactions with the same queues but for the prefix,
  nothing is watched), and every reply on its way, in a handler or got says the same
  from both. Beneath it are lemmas on the operators of `RedisServer`, one per idea:
  a rewritten command has the effect (`EffectAlike`) and the answer (`AnswerAlike`)
  of the command, the last value of an MSET included (`MsetAlike`), since the
  prefix is an injection that keeps the positions; so has a queue of them
  (`RunAlike`), and so a server on whatever comes (`ServedAlike`).
* `RegisteredWasWritten`: `Spec => []IndexedWasWritten`. The inductive invariant
  (`ClaimInv`) starts before the registration: a key is claimed when the SET has been
  executed and its reply, not an error, is still to be read, or when a fetched value
  is being written back; each claimed key was written, or a SET of it is queued, and
  a queue is lost only by a dropped transaction.
* `ReadRespCallsItself`: for every stream `ReadResp(s)` is `ReadOne` with `ReadResp`
  for its nested calls. Every call takes at least a line off the stream, so what a
  nested call is given is shorter (`ReadOneLocal`), and a greater depth gives
  nothing new (`DepthEnough`).
* `CommandReadsBack`: for any words, `ReadResp` takes `EncodeArray(argv)` off any
  stream that begins with it and leaves the rest, and fails on every proper prefix
  (`ReadsBack`). For bulk strings it rests on the length alone, never on what the
  payload contains (`BulkFrame`); for arrays it goes item by item (`ItemsRead`,
  `ArrayFrame`). `CommandsArriveAsWritten`: hence `Spec => []CommandsAreReadBack`.
* `RepliesReadAsSent`: `Spec => []FramesAreReadBack`, and `CutRepliesFail`:
  `Spec => []CutFramesFail`. All frames of all replies in `AllReplies` (scalars,
  arrays of scalars, and arrays of those for EXEC) read back (`FramesRead`); and the
  inductive invariant (`WireInv`) says that the Redis never makes another reply: its
  keys have values or nothing (`Holds`), queued commands are `Runnable` (what they read
  is under a key of the server, what they store is a value), and every reply sent and
  not yet read is one of them (`Speaking`). Without `Holds` it is not inductive: a
  GET would answer what is stored, whatever that is.
* `SparedBackend`: `Spec => []BackendIsSpared`. On top of `IInv`, while no cache lost
  a key (`SparedInv`): of a client at most one layer may still go down to the
  backend, what it asks for was not produced, and what was produced is in the
  outermost cache or in the hands of the request that brings it there (`Covered`).

`SessionAssumption` is of commands: they are not empty, and what stands where
`rewriteCommand` expects a key is a member of `Keys`; the proxy asks no more of a
key than that it can be prefixed. `FramingAssumption` says that heads, the line end
and the other byte differ and are no numbers; `WireAssumption` that payloads are
streams, that what stands in a command where SET and MSET have a value is one, and
that siblings send values. Induction over data is not at hand with an
operator for the predicate, but where the data are counted by a number it is:
`LeastNumber` gives, by the well-foundedness of the naturals, the least
index at which a claim about a transaction's prefix fails, and the step refutes it
(`AfterKeys`, `RunAlike`, and for the depth of `Reader`, the items of an array and the
pieces of a frame in `SessionWireProofs`).

Only model-checked:

* liveness (`DeletedPodIsForgotten`, `ReadyPodIsRegistered`, `RequestsAreAnswered`,
  `CallsReturn`, `PrefetchEnds`, `CommandsAreAnswered`, `RequestsEnd`): TLAPS handles
  neither fairness nor ENABLED;
* what the theorems leave out by their hypotheses, because it is false there or is
  checked on an instance only: prefetch in `L2Clean`, `MigrationBacksSk` and
  `MigrationServes`, deletions and hashes in `MissesAreReal`.

## 5. Not modelled

* The experiment runners (`eval/*/*.sh`, `eval/*/run*.py`): kubectl and sleep
  around the system; what they trigger are cluster changes `Controller` allows,
  and the reset and `REDIS_DB` of the rolling experiment are in `CacheAside`.
* The renderers of manifests and the scripts that derive statistics and figures:
  text and arithmetic over files, with no state of the system.
* `controller/{impact_estimator,k8s_watcher,l2_index,prefetch,version_tag,migration}.py`,
  `sidecar/lfu_snapshot.lua`: comments without code.
* Of the load generator, its arrival process, threads and samples; routing and
  the pods it knows are `HashTarget` and `RouterRing`.
* `ping` of the memcached client as a call of its own: nothing but the probe of
  a prefetch uses it, which `ProbeTarget` models.
* Time: expiry, the 3 s settle delay, intervals of polling. Deadlines are
  failures that may happen at any time.
