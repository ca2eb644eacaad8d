# TLA+ models of golib

This directory holds TLA+ models of the concurrent parts of golib
(`src/`), the TLC configurations that check them, and `PROJECT.json`, which
records the components, runs, mutants, the map from definitions to source
lines, findings and hazards.

## The system

golib is a Go service library. Its concurrent core is **ral**
(`src/ral/ral.go`), a registry of *resources* (`Type:Name`). Each resource
holds a list of *instances* (endpoints) and a selection strategy.

- **Registries.** `modules`, `resources` and `dependons` are global maps
  guarded by one global `sync.RWMutex`. Each `Resource` has its own RWMutex
  `lock` and the fields `list`, `count`, `total`, `order` and `rand`.
- **Naming resources** (`zns:<name>`) are filled by the `zns.Refresh`
  goroutine. Every interval, `zns.Download` (`src/zns/zns.go:60-125`) asks
  the local naming agent for the endpoints. It adds the healthy endpoints
  missing from the list and deletes those no longer reported.
- **Dependent resources** (http, redis, hbase, ...) name a naming resource
  in `Depend`. `AddInstance` on the naming resource calls the dependent
  module's `Append` hook. The hook builds a sub-instance carrying a client
  (a connection pool for redis and hbase), which is added to the dependent
  resource and recorded in `ins.subs`. `DelInstance` walks `ins.subs`, calls
  `Remove`, and deletes the subs.
- **Callers.** Callers such as `http.Call` (`src/http/http.go:103-134`) and
  `nmq.Call` (`src/nmq/nmq.go:116-135`, the same code) run
  on request goroutines. They call `GetInstance`, run `Instance.Retry`
  (which calls `GetInstance` again on failure), and end with a deferred
  `Instance.Release`.

So the naming refresher writes the registry under `Lock` while any number of
request goroutines read it. They check `count` without a lock, then select
under `RLock`, and even write `order` and `count` under that shared `RLock`.

The **rmq** package (`src/rmq`) keeps its own registry, `rmqServices`,
guarded by `rmqServicesMu`. Each client has a mutex `mu`, a producer and a
push consumer, which application goroutines start, stop and send through.

**Start-up.** `ral.Init(dir)` (ral.go:426-498) loads one resource per
config file with `AddResource`. `AddResource` synthesises a `Depend` edge onto
`zns:<ZNS.Name>` and records it in `dependons`. Init then ranges over the
`resources` map. It adds the manual endpoints of a resource through `Append`
and `AddInstance`, and adds the naming resource of any other resource. The
zns module's `Config` hook puts every naming resource in `resList`, which the
`zns.Refresh` goroutine walks. `AddInstance` and `DelInstance` recurse into
the dependent resources while holding `res.lock`.

**Redis refresh.** `src/redis/refresh.go` keeps a second, name-driven
client: `RedisInit` opens one pool per host and `RedisRefresh` adds and
removes pools under `redisRefreshRWLock`.

**Kafka.** `base/kafka.go` publishes through a sarama sync producer.
`command/kafka.go`'s `AddSubFunction` starts a goroutine that joins a
consumer group with `Consume`, and blocks until `Setup` closes `Ready`.
`ConsumeClaim` passes each message to `HandleMessage` and marks it unless
the handler returned an error. sarama commits the marks.

**Redis lock.** `src/redis/lock.go`'s `SetNxByEX`/`SetNxByPX` send
`SET key value EX|PX expire NX` through `Redis.Do` (`redis.go:54-92`),
which runs `Instance.Retry` over the instances of the redis resource and
returns `reply, nil` whatever the last attempt gave. `tryLock` reads the
reply with `redis.String`: `OK` means taken, a nil reply (`ErrNil`) means
busy.

**Cos.** `src/cos/bucket.go` uploads an object with one `Put` below 20M,
and otherwise through a multipart upload of 1M parts.

Mysql, logging, env, middleware and encoding are listed in
`PROJECT.json` as not modelled.

## Modules

### `Ral.tla`: one naming resource, one dependent resource, N callers

**State.** `list`, `count`, `total` and `listNil` model the two `Resource`s.
- `listNil` is `res.list == nil`, which `Release` tests.
- `order` and `strategy` belong to the dependent resource.
- Instance objects are ids from `Ids`.
- `addr[i]` is the endpoint of naming instance `i`, and `sub[i]` its
  sub-instance (`ins.subs`).
- `poolOpen` is the set of sub-instances whose pool is open.

**Refresher.** zns.Download is split into three actions:
- `DownloadFetch`: the response arrives and the code builds its snapshot
  map and scans the response, as a fold (`Plan`).
- `DownloadAdd`: one `AddInstance` per missing endpoint, in response order.
- `DownloadDel`: one `DelInstance` per leftover, in any order (Go map
  order).

Other readers can interleave between these steps, as they can in the code.
An empty response or a failed call changes nothing, so it is not an action.

**Registry operations.** `AddInstance`/`DelInstance` with their cascade are
single actions. They hold the resources' exclusive `Lock`, so they are
enabled only while no caller is inside its `RLock` section (`NoReader`).

**Callers.** Each worker is one `http.Call` or `nmq.Call` goroutine with a program counter
`wpc`:
- `Start`: `GetInstanceCheck`, the unlocked `count <= 0` test.
- `GetInstanceLock`: under `RLock`, compute `which` for the strategy. This
  may panic: `order % 0` or `rand.Intn(0)`.
- `GetInstancePick`: write back `order+1`. Then return `list[which]`, or
  `count--` and a placeholder instance whose nil client fails every
  request. From `Retry`, `next.Release()` runs here.
- `Call`: one request attempt. `Request` gives what `Instance.Request`
  (`ral.go:71-107`) returns: the module's `Method` (`HttpMethod`,
  `NmqMethod`, `RedisMethod`). On the placeholder, http fails with
  `ERR_NOT_FOUND_CLIENT`, nmq panics and redis returns `nil, nil`. On a
  real instance, http and nmq run their client's `Check`, the send and
  `After` in order (`InOrder`). Each step may fail, and the first error
  ends the method. Headers, encodings and replies are abstracted to
  ok/err. A failure before the
  last attempt re-selects. The last attempt, a success or a panic runs
  the deferred `Release`.

The lock and pick steps are separate because the read of `order` and the
write of `order+1` happen under a shared `RLock`.

**Module hooks.** `Module` chooses which hooks are active:
- `http`, `nmq`: `Append` builds a client; `Remove` returns true. nmq's
  `Method` dereferences the client before checking it
  (`nmq.go:53-62`), so a request on the placeholder panics
  (`RequestPanics`).
- `redis`: `Append` opens a pool.

hbase's failing `Append` is modelled in `Registry`, where its error path
runs through the recursive calls.

`Remove` closes `ins.Client` of the *naming* instance it is passed, which is
nil. So in the code, and in `RemoveCloses`, it closes nothing.

### `MCRal.tla`

This module instantiates `Ral` with symmetry over the worker goroutines,
which are interchangeable.

### `Rmq.tla`: the RocketMQ service registry (`src/rmq`)

**State.**
- `services` is `rmqServices`, mapping each service to a client object.
- `handle[c][r]` is the client's `producer` or `pushConsumer`.
- `life` is each handle's life: `free` (not yet created), then `created`,
  `started` or `down`.
- `listening` holds the clients whose naming listener runs.

**Actions.** Callers are application goroutines.
- `Register` covers `Register` and `InitRmq`. It puts a new client in the
  map and replaces any old one.
- `StartProducer`, `StartConsumer`, `StopProducer` and `StopConsumer`
  share the bodies `Start(s, r)` and `Stop(s, r)`. Each holds `client.mu`
  for its whole body, so it is one action. A failing `start()` leaves the
  created handle assigned.
- `Use` starts a consumer and appends the service to the package's
  `consumers` slice. When `StartConsumer` fails, `Use` panics, and the
  process is gone (`crashed`, after which only `Crashed` stutters).
- `ShutdownBegin`, `ShutdownStep` and `ShutdownEnd` are the loop of
  `StopRocketMqConsume`. The range takes the slice once, and each service
  gets its own `StopConsumer`.
- `NewMessage` captures the client registered now.
- `SendCheck` reads the producer under `client.mu`.
- `SendUse` reads `m.client.producer` again without the lock and calls it.

`Reregister` says whether the application may register a service twice.
The package's own examples do, once for the producer and once for the
consumer. Every configuration of the project sets it to `FALSE`. With
`TRUE`, three sequential calls show that the replaced client's started
producer can never be stopped, a case a unit test reaches. `StartMayFail` says whether `start()` may fail.

### `MCRmq.tla`

This module instantiates `Rmq` with symmetry over services, goroutines,
client objects and handles. `MCRmqSend.cfg` gives one service, two
goroutines, two clients and three handles, and allows at most two `Use`
calls (`MaxUses`). No passing run checks Rmq. An invariant that every
started handle stays reachable from `rmqServices` only restates `Stop`
while `Reregister = FALSE`, and `Register` breaks it when it is `TRUE`. A
check that the shutdown loop stops what the `consumers` slice names
cannot see a lost `append` to that slice. Neither was worth a run.

### `Registry.tla`: `ral.Init` and the recursive cascade (`ral.go`, `zns.go`)

**State.**
- `resources`, `dependons` and zns's `resList` are the global tables.
- `list[k]` holds the instances of resource `k`, `insRes[i]` is `ins.res`,
  `subs[i]` is `ins.subs`, and `ep[i]` is the endpoint.
- `owner[k]` is the goroutine holding `k`'s `res.lock`.
- `stack[g]` is the call stack of `AddInstance`/`DelInstance` frames of the
  goroutines `main` (Init) and `refresh` (zns). Each frame is `lock` before
  `res.lock.Lock()` returns and `run` after. `todo` is what its cascade loop
  still has to visit.
- `mpc`, `next`, `unvisited`, `cur` and `pending` are Init's program counter
  and loop variables.
- `aborted` is a history variable: the instances whose call returned an
  error.

**Actions.**
- `LoadFile`: one `AddResource` per file.
- `Visit(k)`: one turn of the map loop, in any order. The loop tests
  `len(res.Manual)` over every IDC (`HasManual`) and then ranges over
  `Manual[env.IDC]` only. A resource with endpoints for another IDC alone
  takes the manual branch with nothing to add, so it gets neither a
  synthesised `Depend` nor a naming resource.
- `ManualAppend`, `ManualDone`: the manual endpoints, through `Append` and
  a nested `AddInstance`.
- `RefreshAdd`, `RefreshDel`: the refresher starts an `AddInstance` or a
  `DelInstance` on a naming resource of `resList`.
- `Lock(g)`: the lock and the resource-local part of a frame.
- `AddStep(g)`, `DelStep(g)`: one turn of a cascade loop.
- `Return(g)`: the deferred unlock and the caller recording the sub.
- `Unwind(g)`: an hbase `Append` error returned through every frame.

Ids are reused once nothing refers to them (`NewId`).

`MCRegistry.tla` gives four files:
- `http:a1` and `hbase:a2`, both named by `ZNS.Name = a`;
- `hbase:m`, with one manual endpoint;
- `redis:r`, declaring `Depend` on both `hbase:m` and `zns:a`.

So both goroutines contend for `redis:r`'s lock. `MCFilesIDC` is the same
config with `http:a1` named through `ZNS.IDC`. `MCFilesNested` has a
two-level cascade: `redis:x` takes its endpoints from naming name `b`, and
`hbase:y` declares `Depend` on `redis:x`.

### `RedisRefresh.tla`: `src/redis/refresh.go`

**State.**
- `pools` is `RedisClient.pools`, a sequence of host and pool object.
- `hIndex` is the host-to-index map.
- `open` holds the pools not closed.
- `ret` is the last error returned.
- `call` is a history variable: the last call and its arguments.

**Actions.** Each call is one action: `RedisRefresh` holds
`redisRefreshRWLock` for its whole body, and the model has one service.
- `RedisInit` has three outcomes: `ParamsErr`, `HasServerNameErr`, and
  storing the pools.
- `RedisRefresh` composes `NewAddRedis` and `RemoveRedis`. Both are folds
  over the argument slices, as in the code's loops. `RemoveRedis` cuts the
  pool out of the slice, rebuilds `hIndex` and closes the pool.

`getConn` is left out because nothing in the repository calls it.

**Refinement.** `RedisHosts.tla` is the abstract specification of one
service's calls. `RedisInit(hosts)` serves each host it is given once.
`RedisRefresh(slAdds, slDels)` serves the old hosts plus `slAdds` minus
`slDels`. Its state `served` is a bag, host to the number of pools kept
for it, so a host with two pools differs from a host with one. Both
modules record the last call and its arguments in `call`. The abstract
step must therefore compute `served'` from the arguments actually passed,
not from any choice of additions and deletions. A call the client refuses
(`InitRefused`, `RefreshRefused`) leaves `served` unchanged.
`RedisRefresh.tla` defines
`Abstract == INSTANCE RedisHosts WITH served <- ToBag(HostsOf(pools))`;
`inited` and `call` map to themselves.
`ImplementsRedisHosts == Abstract!Spec` is a PROPERTY of the
`redis_refresh` run. It holds, so the in-place slice surgery of
`newAddRedis`/`removeRedis` serves exactly what the calls ask for. The
return value `ret` is still modelled. `RedisRefresh` returns
`NotExistServerNameErr` even after a successful refresh (refresh.go:175).
That is left to a unit test, because one sequential call shows it.

### `Kafka.tla`: `src/base/kafka.go` and `src/command/kafka.go`

One topic partition, one publisher and one consumer process in one group.
A message is its 0-based offset.

**State.**
- `logLen` is the partition log.
- `producer` is open until `CloseProducer`.
- `cpc` is the consumer goroutine's phase: `join` (in `Consume`, no
  session yet), `session`, `returned` (the goroutine has exited) or `down`
  (the process crashed).
- `waiting` is `AddSubFunction` blocked on `<-Ready`.
- `pos` is the claim's next offset, and `cur` is the message in
  `HandleMessage`.
- `marked` is the session's mark, and `committed` is the group's durable
  offset.
- `attempted` and `startOff` are history.

**Actions.**
- `Pub` appends. A failed `SendMessage` is a no-op, and `Pub` still
  returns nil.
- `CloseProducer` closes the producer.
- `Join` starts a session: `Setup` closes `Ready`, and the claim starts at
  `SessionStart`. That is the committed offset, or the `Initial` offset of
  lines 54-58 when none is committed.
- `ConsumeFail` is `Consume` returning an error before any session.
- `Receive` takes the next message of the range.
- `HandleMessage(r)` runs the handler. `r` is ok, err or panic. A
  recovered panic returns nil, so the message is marked. An error
  `continue`s without marking.
- `AutoCommit` and `Rebalance` model sarama. Marks are committed from
  time to time, and when the session ends on a rebalance, after which
  `Consume` returns.
- `Crash` loses everything but `committed`. `Restart` calls
  `AddSubFunction` again.

sarama's source is not in the repository. Its commit, rebalance and
initial-offset behaviour is taken from its documented contract.

### `Cos.tla`: `src/cos/bucket.go`

One call at a time, to one object key.

**Abstraction.** Bytes are a two-letter alphabet, and `Zero` is the byte
of a fresh buffer. `sliceSize1M` and `maxUnSliceFileSize` become `Slice`
and `MaxUnSlice`. They keep the code's relations: below `MaxUnSlice`, one
`Put`; from it on, `size \div Slice + 1` parts.

**State.**
- `pc`, `kind` and `src` are the call and its input.
- `rest` is what is left: the unread file, or the `content` string.
- `i` and `nParts` are the loop index and bound.
- `parts` is `opt.Parts`, with each part's bytes.
- `stored` is the object at the key.
- `open` counts initiated uploads not completed.

**Actions.**
- `LocalBegin` and `ContentBegin` cover each function up to its first
  request: the size and empty checks, then `PutObject` or `Initiate`.
- `LocalPart` reads into a fresh buffer. At the end of the file it returns
  the `io.EOF` error; otherwise it uploads the full buffer.
- `ContentPart` cuts `content[:pos]`.
- `PartFail` is a failed `uploadPart`.
- `Complete` is `CompleteMultipartUpload`: COS stores the parts in order,
  or returns an error.

A read of a regular file returns the whole slice, or the rest of the file.
Short reads are not modelled.

### `RedisLock.tla`: `src/redis/lock.go` over `Redis.Do`

Each caller makes one `SetNxByEX` call on a `Redis` from `GetInstance`.
The instances of the resource are taken to serve one keyspace (proxies of
one store), so the state has one `key`: the caller holding it, or `None`.
- `Begin` is the call up to `Do`'s first attempt. `GetInstanceFails` is
  `redis.GetInstance` failing (no client, or not a `*RedisClient`), and
  also stands for tryLock's "value is empty" return: the caller gets an
  error and no command is sent. `zeroTTL` is the caller passing
  `expire = 0`, which redis refuses with an error reply.
- `SetNX` is what redis does with the command: set when absent (`OK`),
  a nil reply when present.
- `Attempt` is one turn of `Instance.Retry` with `Do`'s callback. On the
  placeholder (`onClient = FALSE`, ral.go:400) the callback returns true
  and leaves `reply` alone. Otherwise the attempt is answered, fails
  before redis runs it, or is run by redis with the reply lost (a read
  timeout): the last two leave `reply` nil and retry. redigo also returns
  an error reply as `err`, so an answered `ERR` sets `reply` and retries
  too. After the last
  turn, `Do` returns `reply, nil` and `TryLockResult` maps it as
  `tryLock` does. The next instance is a listed one, the placeholder, or,
  when `GetInstance` fails, the same one.
- `Expire` is the key's TTL running out on the server.

## Runs

| run | cfg | expect | what it shows |
|---|---|---|---|
| core | MCRal.cfg | pass | Two nmq callers race a refresher under the random, order, first and last strategies. `count <= len(list)` holds (`CountNeverAheadOfList`). The dependent resource lists exactly the subs of the listed naming instances (`DepMirrorsNaming`). After a Download, each healthy reported endpoint is listed once (`DownloadMirrorsNaming`). |
| panic_stale_count | MCRalPanic.cfg | violation | A Download deletes the last instance between the unlocked `count` check and `RLock`. `nmq.Call` then gets the placeholder, and nmq's `Method` dereferences its nil client (`CallNeverPanics`). Under the order or random strategy, `order % 0` or `rand.Intn(0)` panics at the same point. |
| count_drift | MCRalDrift.cfg | violation | The placeholder `count--` is never undone, because `Release` returns early when the list is not nil. Instances end up listed while `GetInstance` reports none. |
| rmq_send_stop | MCRmqSend.cfg | violation | A `StopProducer` between Send's locked check and its unlocked re-read makes `Send` dereference nil (`SendNeverPanics`). |
| registry | MCRegistry.cfg | pass | Init races the refresher, whose cascades recurse while holding locks, and hbase `Append` errors unwind the stacks. The wait-for relation between goroutines never has a cycle (`NoLockCycle`). When both goroutines are idle, every naming instance not hit by an error has a sub in each non-manual dependent (`CascadeReachesDependents`). Init ends, done or failed (`InitTerminates`). |
| registry_orphan | MCRegistryOrphan.cfg | violation | With `MCFilesNested`, the refresher adds a naming instance. The cascade lists a `redis:x` sub, and then `hbase:y`'s `Append` fails. The error returns through `AddInstance` (ral.go:318) before the sub is recorded in the naming instance's `subs`. The sub stays listed with nothing that can delete it (`NoOrphanSub`). `zns.Download` only logs the error, though spec §4.2 expects callers to treat it as fatal. |
| redis_refresh | MCRedisRefresh.cfg | pass | Any sequence of RedisInit/RedisRefresh calls keeps `hIndex` pointing into `pools` after the in-place shifts (`IndexMatchesPools`). Every removed pool is closed (`OpenPoolsListed`). Every call is a step of the abstract `RedisHosts` specification (`ImplementsRedisHosts`), so the pools serve exactly the hosts the calls leave, one pool each. |
| kafka | MCKafka.cfg | pass | Handler errors and panics, rebalances, and consumer crashes and restarts are interleaved with publishing. The group never commits an offset past a message that was not handed to `HandleMessage` (`CommittedWereAttempted`): delivery is at least once. |
| kafka_stall | MCKafkaStall.cfg | violation | `Consume` is called once (command/kafka.go:79). After a rebalance, or a failed `Consume`, the goroutine exits, and messages published later never reach the handler (`EveryMessageReachesHandler`). The trace: publish, crash, restart, join, rebalance, then stuttering for ever. With `Consume` in a loop, the property holds. |
| cos_upload | MCCos.cfg | pass | Both uploads run with failures of every COS request. A successful `UploadFileContent` leaves exactly its content at the key (`ContentUploadStoresContent`). That includes sizes that are whole multiples of the slice, where the `+ 1` of the part count uploads an empty last part. |
| redis_lock_busy | MCRedisLock.cfg | violation | `SetNxByEX` returns `(false, nil)`, the answer for "another holder has the lock", while the key is free (`LockBusyMeansOtherHolder`). The trace: an attempt fails, the retry lands on the placeholder, and `Do` returns the nil reply with a nil error. A SET applied with its reply lost and then retried reaches the same return with the key holding the caller's own value. |
| cos_local_padding | MCCosLocal.cfg | violation | A 3-byte file (slice 2) is uploaded in two parts, the second the 1-byte remainder plus a zero byte, and the object stored is 4 bytes (`UploadStoresSource`). `UploadLocalFile` uploads the whole buffer whatever `f.Read` filled (bucket.go:107). |

More defects are modelled but not given a run, because the project keeps to
twelve runs and each of these is reached by a short sequential test. All are
listed as hazards in `PROJECT.json`.
- **Pool leak.** redis's `Remove` (redis.go:148) closes the removed naming
  instance's nil `Client`, not the sub's pool. `RemovedPoolsClosed` fails
  with `Module = "redis"` after one add and one remove.
- **ZNS.IDC.** A resource named through `ZNS.IDC` gets its naming resource
  from Init but no `Depend` edge, so it never receives an instance.
  `CascadeReachesDependents` fails with `Files <- MCFilesIDC`,
  `Endpoints = {"e1"}` and six `Ids`.
- **Abandoned multipart uploads.** No cos upload calls
  `AbortMultipartUpload` on an error, so `open` stays up.
- **cos default key.** `UploadFileContent` tests `objectKey == ""` after
  appending the suffix, so every call without a `fileName` writes `.jpg`.
- **Duplicate entries.** A response that reports an endpoint twice lists it twice, because the snapshot map is not updated on add. `DownloadMirrorsNaming` fails with `DupEntries = TRUE`.
- **Failed start.** A failed `start()` leaves the producer assigned (`StartMayFail`), so `StartProducer` is refused from then on.
- **Lost round-robin turns.** `order++` runs under the shared `RLock`
  (ral.go:393), so two readers can both write `order+1` and round-robin
  repeats an instance. `RoundRobinTakesEveryTurn` fails on `MCRal` with
  `Strategies = {"order"}`, `Module = "http"`, `Ids = {1, 2, 3, 4, 5}`.
- **Duplicate RedisInit hosts.** A host passed twice to `RedisInit` gets two pools. `ImplementsRedisHosts` fails with `DupHosts = TRUE`.

A partial cascade one level deep, where a failed `Append` leaves a naming
instance listed without its sub, is not checked as a violation. The spec
(§4.2, AddInstance step 3) accepts it as a fatal configuration failure.
Two levels deep, it leaves a listed sub that no `DelInstance` reaches.
That is `registry_orphan`.

Each property of a passing run has a mutant in `PROJECT.json`: a plausible
bug in the modelled code that TLC shows breaks it. The mutants are:
- `total--` dropped;
- `Release` without its early return;
- no `Remove` cascade;
- the snapshot entry not deleted;
- `Lock` not setting `ins.res`;
- `AddResource` also recording a resource under its own key (a
  self-dependency);
- no `Depend` edge synthesised from `ZNS.Name`;
- a return without its deferred `Unlock`;
- 0-based `hIndex` read as 1-based;
- `removeRedis` without the rebuild, or without the close;
- `newAddRedis` testing a host against the map taken before the loop;
- a kafka session resuming after, not at, the committed offset;
- a message marked when it is received rather than after it is handled;
- the cos part loop starting at 0;
- the cos part count without its `+ 1`.

Two findings of the first sitting are no longer runs, because a unit test
reaches each in a few sequential calls. They are listed as hazards:
- `RedisRefresh` returns an error after applying its changes;
- a second `Register` replaces a client that is still running.

## Bounds

- **Endpoints and workers.** Two endpoints (`Addrs`) and two workers are
  the fewest that exhibit every race found. Each violation trace needs at
  most one refresher and two callers.
- **Instance objects.** Five ids (`Ids`) cover both resources' instances,
  plus the ones held by a caller or pending deletion. Ids are reused once
  no longer referenced, so refresh cycles are unbounded.
- **Responses.** Responses have one or two entries, each healthy or not.
  This covers adding, keeping, deleting and the all-unhealthy response.
  No run enables duplicate entries (`DupEntries = FALSE`).
- **Strategies.** `hash` is left out. With `HashKey` unset, `Which` gives 0
  for it, exactly as for `first`.
- **count.** Without duplicates, `count <= |Addrs| = 2`, so `MaxCount = 2`
  bounds it from above. The guard
  `count - |readers in pick| > -MaxCount` on `GetInstanceLock` bounds the
  downward drift the placeholder branch causes.
- **order.** `order` is kept modulo `OrderMod = 2`. The ASSUME requires
  `OrderMod` to be a multiple of every count from 1 to `MaxCount`, so
  `order % count` is unchanged by this.
- **Retries.** `RetryConf = 1` gives one re-selection through `Retry`. The
  code clamps `Retry` to 0..3; `RetryCap` models the clamp.

- **Registry.** One naming endpoint (`Endpoints = {e1}`) and a manual one
  (`e2`). Six ids cover every live instance: two naming instances and
  their three subs, plus the manual one and its sub.
  - The four files give every edge kind: a naming fan-out to two
    dependents, a manual resource, a resource with two Depend keys, and an
    hbase `Append` that fails both at Init and inside a refresh cascade.
  - The refresher may add and delete without end, because ids are reused.
  - `MCRegistryOrphan.cfg` needs two files and four ids: a naming
    instance, one sub per level, and a spare.
- **RedisRefresh.** Three hosts, slices of up to two hosts, and four pool
  objects. The same `Hosts` and `MaxArgs` bound the abstract calls. Removing the first of two pools shifts the second, and a call
  can add and delete at once.
- **Kafka.** `MCKafka.cfg` allows three messages, two crashes and one
  rebalance. That is enough for a crash after a mark but before its
  commit, a restart from the committed offset, an error followed by a
  successful message, and a rebalance commit. `FromNewest = FALSE`
  (`OffsetOldest`) makes the first session start at 0. `MCKafkaStall.cfg`
  needs two messages, one crash and one rebalance.

- **RedisLock.** Two callers, `RetryConf = 1` (two attempts) and one
  expiry: enough for a failed attempt followed by a retry, a lost reply
  followed by a retry that sees the caller's own key, and a key taken by
  the other caller. Each caller calls once, so the configuration sets
  `CHECK_DEADLOCK FALSE`.

- **Cos.** Slices of 2 bytes, multipart from 3 bytes, a size limit of 5
  and contents up to 6 bytes. This gives a single `Put`, 2 and 3 parts,
  sizes 4 that are whole multiples of the slice, and a rejected size. Two
  calls per behaviour show a later call overwriting an earlier object.
  Every request may fail. The configurations set `CHECK_DEADLOCK FALSE`,
  because a behaviour ends after `MaxCalls` calls.

## Fairness

`Ral`, `Rmq`, `RedisRefresh` and `RedisLock` check safety only and have no fairness.

`Kafka`'s `Spec` has weak fairness on:
- the consumer goroutine's steps (`Join`, `Receive`, `HandleMessage`);
- sarama's periodic commit (`AutoCommit`);
- `Restart`, because a crashed service is restarted by its supervisor.

`Pub`, `Rebalance`, `Crash` and `ConsumeFail` are the environment and
need not happen. Both kafka configurations set `CHECK_DEADLOCK FALSE`. A
consumer with every message handled waits in the claim loop, and after the
goroutine returns nothing is left to do. Both are real resting states.

`Registry`'s `Spec` has fairness:
- weak fairness on Init's actions, because Init runs on its own goroutine
  to its end;
- for each goroutine, weak fairness on the steps inside a call;
- strong fairness on `Lock`.

Strong fairness on `Lock` is needed because another goroutine can take and
release the same lock again and again. Go's `sync.Mutex` switches to
starvation mode after a waiter has been blocked for 1ms, and then hands the
lock to the waiter. The refresher starting a new call is not fair, because
the naming service need not change.

`MCRegistry.cfg` sets `CHECK_DEADLOCK FALSE`. Init may fail before any
naming resource exists. The real refresher then loops over an empty
`resList` for ever, which the model shows as a state with no successor.

## Not modelled (yet), and the plan

1. **AddResource race** (ral.go:263): the check-then-insert race needs a
   second goroutine calling `AddResource` for a new key. Within the
   repository only Init does that, so `Registry` has one caller.
2. **RedisRefresh**: `getConn` has no caller. A concurrent `RedisInit`
   race is left out, because it is called once at start-up.
3. **Rmq** is modelled (above). Left out:
   - the unguarded reads of `rmqServices` in StartProducer and the other
     entry points, a Go map data race rather than an interleaving of steps;
   - the consume callback, the naming HTTP handler and the logger adapter,
     which are I/O.
4. **An abstract endpoint-set spec.** The set of served endpoints follows
   the last response. `Ral` would refine it under a mapping that hides
   worker state, with liveness: a reported endpoint is eventually served.
5. **Not planned:**
   - The transports below `Instance.Request` (goreq, mcpack, redigo, the
     hbase thrift pool, gorm): they are I/O. `Ral` keeps only whether each
     step succeeds.
   - What `http.Call` and `nmq.Call` return after their retries: Call's
     `err` is never cleared by a later success (a hazard). What `Redis.Do`
     returns is modelled for the lock (`RedisLock`).
   - The rest of the ral redis client: `Send`, `Release`, `Pipeline` and
     the string, hash and list wrappers. Each is one `Do` (or one pooled
     connection) plus a reply conversion, with no state of its own.
   - In `Cos`: object-key naming, the `needSize` image decode, which reads
     from the file before the upload, `Download2Local`, `GetObjectList`
     and URL building. The decode moves the file offset, so `Put` sends
     fewer bytes than `ContentLength` says; this is listed as a hazard.
     These are I/O or formatting over one key.
   - `base/mysql.go`: a gorm connection set up once, plus log formatting.
   - In `Kafka`: several partitions or consumers, and the deadlock of
     `AddSubFunction` when `Consume` fails before `Setup` (modelled as
     `waiting` staying `TRUE`, and not given a run). Also: an errored
     message committed past by a later mark, and `Pub` returning nil on a
     send error. Both are listed as hazards.
   - The corruption of the shared `*rand.Rand` by concurrent `Intn`
     (ral.go:380-383): it is internal to math/rand, so any index is chosen.
   - zlog, env, middleware, utils and gomcpack: formatting and
     configuration.
   - hbase's `Exec` (hbase_module.go:39-83). It has the same `Retry`
     shape as `Redis.Do`, but returns the last attempt's `err`, so it
     does not have `Do`'s defect. Its connection goes back to the pool
     even after `efunc` failed on it. That is a property of the
     thrift pool, which is not modelled.

**How much of the code the map covers.** The map names about a quarter
of the implementation's lines. Most of the rest has no state for TLC to
explore:
- generated protobuf code (`zns/bns/*.pb.go`, about 600 lines);
- logging (`zlog`, `cos/log.go`, about 780);
- the gin middleware and rendering (about 340);
- configuration and env loading (`env`, the `checkConf` functions, about 260);
- encoding (`gomcpack`, `utils`, about 250);
- `base/mysql.go`: a gorm client opened once, plus a SQL log formatter.

The concurrent and stateful code is modelled: ral, zns, http, nmq, redis,
rmq, kafka and cos.

