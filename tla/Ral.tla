-------------------------------- MODULE Ral --------------------------------
(***************************************************************************)
(* The resource/instance registry of src/ral/ral.go together with the two *)
(* kinds of goroutine that use it concurrently:                            *)
(*   - the naming refresh, zns.Download (src/zns/zns.go), which diffs a    *)
(*     naming response against GetAllInstance and calls AddInstance and   *)
(*     DelInstance on the naming resource NamingRes; both cascade into the *)
(*     resource DepRes that depends on it (dependons[NamingRes] = DepRes)  *)
(*     through the module hooks Append and Remove;                         *)
(*   - request-serving goroutines (Workers) running http.Call or nmq.Call *)
(*     (src/http/http.go, src/nmq/nmq.go; the two are the same code):     *)
(*     GetInstance on DepRes, then Instance.Retry,                         *)
(*     which re-selects with GetInstance after each failed attempt.        *)
(* Instances are pointers: an instance is an element of Ids, allocated     *)
(* fresh by AddInstance and compared by identity.                          *)
(***************************************************************************)
EXTENDS Integers, Sequences, FiniteSets, SequencesExt

CONSTANTS
  Addrs,       \* endpoints (ip:port) the naming service can report
  Workers,     \* request-serving goroutines
  Ids,         \* instance objects; AddInstance allocates free ones
  Strategies,  \* values Resource.Strategy of DepRes may be configured with
  Module,      \* type of DepRes: "http", "nmq" or "redis"
  RetryConf,   \* Resource.Retry as configured for DepRes
  MaxResp,     \* most entries in one naming response
  DupEntries,  \* whether a naming response may list one endpoint twice
  MaxCount,    \* bound on |count|: the model stops a behaviour beyond it
  OrderMod,    \* Resource.order is kept modulo OrderMod
  NamingRes, DepRes, NoIns, NoAddr, Placeholder

ASSUME /\ Module \in {"http", "nmq", "redis"}
       /\ Strategies \subseteq {"random", "hash", "order", "first", "last"}
       /\ \A k \in 1..MaxCount : OrderMod % k = 0
       /\ {NoIns, Placeholder} \cap Ids = {}

Res == {NamingRes, DepRes}

VARIABLES
  list,      \* list[r]: Resource.list, a sequence of instances
  listNil,   \* listNil[r]: Resource.list is still the nil slice
  count,     \* count[r]: Resource.count
  total,     \* total[r]: Resource.total
  order,     \* Resource.order of DepRes (modulo OrderMod)
  strategy,  \* Resource.Strategy of DepRes, fixed by its configuration
  addr,      \* addr[i]: Instance.IP:Port of a naming instance
  sub,       \* sub[i]: Instance.subs of a naming instance (one dependent)
  poolOpen,  \* instances of DepRes whose client connection pool is open
  rpc,       \* naming refresh: "idle" or "sync" (applying one response)
  reported,  \* healthy endpoints of the response being (or last) applied
  toAdd,     \* endpoints Download still has to AddInstance
  toDel,     \* instances Download still has to DelInstance
  wpc,       \* wpc[w]: "idle", "lock", "pick" (holding RLock) or "call"
  cur,       \* cur[w]: the instance the worker's attempt uses (curIns)
  which,     \* which[w]: index chosen by the strategy in GetInstance
  seen,      \* seen[w]: Resource.order as read under the shared lock
  retrying,  \* retrying[w]: GetInstance was called from Retry
  attempt,   \* attempt[w]: loop index i of Instance.Retry
  served,    \* history: GetInstance calls that took an "order" turn
  panicked   \* history: some GetInstance panicked

vars == <<list, listNil, count, total, order, strategy, addr, sub, poolOpen,
          rpc, reported, toAdd, toDel, wpc, cur, which, seen, retrying, attempt,
          served, panicked>>
regVars == <<list, listNil, count, total, addr, sub, poolOpen>>
workerVars == <<wpc, cur, which, seen, retrying, attempt>>
refreshVars == <<rpc, reported, toAdd, toDel>>

Entry == [addr : Addrs, healthy : BOOLEAN]  \* one bns.InstanceInfo

Responses ==
  { r \in UNION {[1..n -> Entry] : n \in 1..MaxResp} :
      DupEntries \/ \A k, m \in DOMAIN r : k # m => r[k].addr # r[m].addr }

\* Instance.Retry clamps Resource.Retry to [0,3] (ral.go:133-139)
RetryCap == IF RetryConf < 0 THEN 0 ELSE IF RetryConf > 3 THEN 3 ELSE RetryConf

Abs(x) == IF x < 0 THEN -x ELSE x

(***************************************************************************)
(* Instance allocation: an object is free when nothing references it (a   *)
(* pool left open keeps its sockets, not the Instance).                     *)
(***************************************************************************)
InUse ==
  ToSet(list[NamingRes]) \cup ToSet(list[DepRes]) \cup toDel
    \cup {cur[w] : w \in Workers}
    \cup {sub[i] : i \in ToSet(list[NamingRes])}
Free == Ids \ InUse

\* No worker holds DepRes's RLock, so its Lock can be taken
NoReader == \A w \in Workers : wpc[w] # "pick"

\* Workers holding DepRes's RLock
Readers == {w \in Workers : wpc[w] = "pick"}

(***************************************************************************)
(* Module hooks for DepRes: Append opens a client (a connection pool for  *)
(* redis); the hbase hook, whose Append can fail, is in Registry.         *)
(* Remove(self, res, ins) closes the pool of ins.Client, where ins is the *)
(* removed NAMING instance (Client nil), so it closes nothing, and         *)
(* returns true.                                                           *)
(***************************************************************************)
HasPool == Module = "redis"
RemoveCloses(j) == poolOpen

(***************************************************************************)
(* The resource-local part of AddInstance (ral.go:303-309) and of         *)
(* DelInstance (ral.go:332-345), applied under each resource's Lock to    *)
(* the resources in S; ins[r] is the instance added to / deleted from r.  *)
(* DelInstance removes by identity and decrements count and total whether *)
(* or not the instance was found.                                          *)
(***************************************************************************)
AddTo(S, ins) ==
  /\ list' = [r \in Res |-> IF r \in S THEN Append(list[r], ins[r]) ELSE list[r]]
  /\ listNil' = [r \in Res |-> listNil[r] /\ r \notin S]
  /\ count' = [r \in Res |-> IF r \in S THEN count[r] + 1 ELSE count[r]]
  /\ total' = [r \in Res |-> IF r \in S THEN total[r] + 1 ELSE total[r]]

\* Mutant: DelInstance forgetting total-- (ral.go:345)
DelFromKeepTotal(S, ins) ==
  /\ list' = [r \in Res |-> IF r \in S THEN Remove(list[r], ins[r]) ELSE list[r]]
  /\ count' = [r \in Res |-> IF r \in S THEN count[r] - 1 ELSE count[r]]
  /\ UNCHANGED <<total, listNil>>

DelFrom(S, ins) ==
  /\ list' = [r \in Res |-> IF r \in S THEN Remove(list[r], ins[r]) ELSE list[r]]
  /\ count' = [r \in Res |-> IF r \in S THEN count[r] - 1 ELSE count[r]]
  /\ total' = [r \in Res |-> IF r \in S THEN total[r] - 1 ELSE total[r]]
  /\ UNCHANGED listNil

(***************************************************************************)
(* AddInstance(zns, name, i) with its cascade (ral.go:294-325): i is      *)
(* listed, then Append derives a sub which AddInstance(DepRes) lists and  *)
(* i.subs records.  An Append error returns early: i stays listed with no *)
(* sub (Registry models that path).  The cascade takes DepRes's Lock, so  *)
(* no reader may hold its RLock.                                           *)
(***************************************************************************)
AddInstance(a) ==
  LET i == Min(Free)
      j == Min(Free \ {i})
  IN /\ Cardinality(Free) >= 2
     /\ NoReader
     /\ addr' = [addr EXCEPT ![i] = a]
     /\ AddTo(Res, [r \in Res |-> IF r = NamingRes THEN i ELSE j])
     /\ sub' = [sub EXCEPT ![i] = j]
     /\ poolOpen' = IF HasPool THEN poolOpen \cup {j} ELSE poolOpen

\* Mutant: DelInstance skipping the Remove cascade over ins.subs
DelInstanceNoCascade(i) ==
  /\ DelFrom({NamingRes}, [r \in Res |-> i])
  /\ UNCHANGED <<poolOpen, sub>>
  /\ addr' = [addr EXCEPT ![i] = NoAddr]

(***************************************************************************)
(* DelInstance(zns, name, i) with its cascade (ral.go:326-357): i is      *)
(* unlisted, then for its sub Remove is called and, as it returns true,   *)
(* DelInstance(DepRes, sub) unlists the sub.                               *)
(***************************************************************************)
DelInstance(i) ==
  LET S == IF sub[i] = NoIns THEN {NamingRes} ELSE Res
  IN /\ sub[i] # NoIns => NoReader
     /\ DelFrom(S, [r \in Res |-> IF r = NamingRes THEN i ELSE sub[i]])
     /\ poolOpen' = RemoveCloses(sub[i])
     /\ sub' = [sub EXCEPT ![i] = NoIns]
     /\ addr' = [addr EXCEPT ![i] = NoAddr]
(***************************************************************************)
(* zns.Download for one naming resource (zns.go:87-122).  The snapshot    *)
(* maps "ip:port" to the instance GetAllInstance lists last for it; the   *)
(* loop over the response adds every healthy endpoint missing from the    *)
(* map (the map is not updated on add) and deletes from the map every     *)
(* one present; what remains of the map is deleted, in map order.         *)
(***************************************************************************)
Snapshot ==
  [a \in Addrs |->
     LET k == SelectLastInSeq(list[NamingRes], LAMBDA i : addr[i] = a)
     IN IF k = 0 THEN NoIns ELSE list[NamingRes][k]]

\* Mutant: the loop not deleting a reported endpoint from the snapshot map
ScanEntryNoDelete(acc, e) ==
  IF ~e.healthy THEN acc
  ELSE IF acc.m[e.addr] = NoIns THEN [acc EXCEPT !.adds = Append(@, e.addr)]
  ELSE acc

ScanEntry(acc, e) ==
  IF ~e.healthy THEN acc
  ELSE IF acc.m[e.addr] = NoIns THEN [acc EXCEPT !.adds = Append(@, e.addr)]
  ELSE [acc EXCEPT !.m[e.addr] = NoIns]

\* Endpoints a response reports healthy (Status 0, zns.go:100)
Healthy(r) == {r[k].addr : k \in {k \in DOMAIN r : r[k].healthy}}

Plan(r) == FoldLeft(ScanEntry, [m |-> Snapshot, adds |-> <<>>], r)

\* The refresh is idle again once nothing is left to add or delete
SyncState(ta, td) == rpc' = IF ta = <<>> /\ td = {} THEN "idle" ELSE "sync"

\* A response with no entry, or a failed call, is skipped (zns.go:82-91):
\* that step changes nothing, so it is not an action of the model.
DownloadFetch ==
  /\ rpc = "idle"
  /\ \E r \in Responses :
       LET p == Plan(r)
       IN /\ reported' = Healthy(r)
          /\ toAdd' = p.adds
          /\ toDel' = {p.m[a] : a \in Addrs} \ {NoIns}
          /\ SyncState(toAdd', toDel')
  /\ UNCHANGED <<regVars, workerVars, order, strategy, served, panicked>>

DownloadAdd ==
  /\ rpc = "sync"
  /\ toAdd # <<>>
  /\ AddInstance(Head(toAdd))
  /\ toAdd' = Tail(toAdd)
  /\ SyncState(toAdd', toDel)
  /\ UNCHANGED <<reported, toDel, workerVars, order, strategy, served, panicked>>

DownloadDel ==
  /\ rpc = "sync"
  /\ toAdd = <<>>
  /\ \E i \in toDel :
       /\ DelInstance(i)
       /\ toDel' = toDel \ {i}
  /\ SyncState(toAdd, toDel')
  /\ UNCHANGED <<reported, toAdd, workerVars, order, strategy, served, panicked>>

(***************************************************************************)
(* Instance.Release (ral.go:122-129): count++ only while list is nil.     *)
(***************************************************************************)
\* Mutant: Release without its early return for a non-nil list
ReleaseAlways(c) == c + 1

ReleaseCount(c) == IF listNil[DepRes] THEN c + 1 ELSE c

(***************************************************************************)
(* GetInstance(DepRes) (ral.go:359-402) in three steps.  Check reads      *)
(* count WITHOUT the resource lock and fails with ERR_NOT_FOUND_INSTANCE  *)
(* when it is <= 0; called from Retry, the error keeps curIns and the     *)
(* loop goes on (ral.go:146-149); from http.Call it ends the call before *)
(* anything changed, a step the model leaves out.                          *)
(***************************************************************************)
GetInstanceCheck(w, fromRetry) ==
  \/ /\ count[DepRes] > 0
     /\ wpc' = [wpc EXCEPT ![w] = "lock"]
     /\ retrying' = [retrying EXCEPT ![w] = fromRetry]
     /\ UNCHANGED <<attempt, cur>>
  \/ /\ count[DepRes] <= 0
     /\ fromRetry
     /\ wpc' = [wpc EXCEPT ![w] = "call"]
     /\ attempt' = [attempt EXCEPT ![w] = @ + 1]
     /\ UNCHANGED <<retrying, cur>>

\* The index each strategy computes from count c (ral.go:377-394); "hash"
\* has an empty case and keeps 0.  Go's % takes the sign of the dividend.
Which(s, c) ==
  CASE s = "random" -> 0..(c - 1)
    [] s = "last"   -> {IF c > 1 THEN c - 1 ELSE 0}
    [] s = "order"  -> {order % Abs(c)}
    [] OTHER        -> {0}

\* order % 0 is an integer divide by zero; rand.Intn(n) panics for n <= 0
Panics(s, c) == (s = "order" /\ c = 0) \/ (s = "random" /\ c <= 0)

\* RLock taken; which computed from count and order as they are now.  A
\* panic unwinds GetInstance (its deferred RUnlock runs), Retry and Call.
GetInstanceLock(w) ==
  /\ wpc[w] = "lock"
  /\ count[DepRes] - Cardinality(Readers) > -MaxCount
  /\ \/ /\ Panics(strategy, count[DepRes])
        /\ panicked' = TRUE
        /\ wpc' = [wpc EXCEPT ![w] = "idle"]
        /\ cur' = [cur EXCEPT ![w] = NoIns]
        /\ count' = IF retrying[w]
                     THEN [count EXCEPT ![DepRes] = ReleaseCount(@)]
                     ELSE count
        /\ retrying' = [retrying EXCEPT ![w] = FALSE]
        /\ attempt' = [attempt EXCEPT ![w] = 0]
        /\ UNCHANGED <<which, seen>>
     \/ /\ ~Panics(strategy, count[DepRes])
        /\ \E k \in Which(strategy, count[DepRes]) :
             which' = [which EXCEPT ![w] = k]
        /\ seen' = [seen EXCEPT ![w] = order]
        /\ wpc' = [wpc EXCEPT ![w] = "pick"]
        /\ UNCHANGED <<panicked, cur, count, retrying, attempt>>
  /\ UNCHANGED <<list, listNil, total, addr, sub, poolOpen, refreshVars,
                 order, strategy, served>>
\* Under RLock: order++ writes back the value read in GetInstanceLock, a
\* read-modify-write that another reader holding RLock can interleave.  An
\* index past the end of list yields count-- and a placeholder instance
\* with a nil Client.  Called from Retry, next.Release() follows.
GetInstancePick(w) ==
  LET hit == which[w] < Len(list[DepRes])
      left == IF hit THEN count[DepRes] ELSE count[DepRes] - 1
  IN
  /\ wpc[w] = "pick"
  /\ order' = IF strategy = "order" THEN (seen[w] + 1) % OrderMod ELSE order
  /\ served' = IF strategy = "order" THEN (served + 1) % OrderMod ELSE served
  /\ \/ /\ hit
        /\ cur' = [cur EXCEPT ![w] = list[DepRes][which[w] + 1]]
     \/ /\ ~hit
        /\ cur' = [cur EXCEPT ![w] = Placeholder]
  /\ count' = [count EXCEPT ![DepRes] =
                 IF retrying[w] THEN ReleaseCount(left) ELSE left]
  /\ wpc' = [wpc EXCEPT ![w] = "call"]
  /\ attempt' = [attempt EXCEPT ![w] = IF retrying[w] THEN @ + 1 ELSE 0]
  /\ which' = [which EXCEPT ![w] = 0]
  /\ seen' = [seen EXCEPT ![w] = 0]
  /\ UNCHANGED <<list, listNil, total, addr, sub, poolOpen, refreshVars,
                 strategy, retrying, panicked>>

(***************************************************************************)
(* http.Call (http.go:103-134): GetInstance, then Instance.Retry          *)
(* (ral.go:132-152) runs the callback, ins.Request, on curIns up to       *)
(* RetryCap+1 times; its deferred ins.Release() runs when it returns.     *)
(***************************************************************************)
Start(w) ==
  /\ wpc[w] = "idle"
  /\ GetInstanceCheck(w, FALSE)
  /\ UNCHANGED <<regVars, refreshVars, order, strategy, which, seen,
                 served, panicked>>

\* The call returns: Retry stops and http.Call's deferred Release runs
Finish(w) ==
  /\ wpc' = [wpc EXCEPT ![w] = "idle"]
  /\ cur' = [cur EXCEPT ![w] = NoIns]
  /\ count' = [count EXCEPT ![DepRes] = ReleaseCount(@)]
  /\ retrying' = [retrying EXCEPT ![w] = FALSE]
  /\ attempt' = [attempt EXCEPT ![w] = 0]

\* nmq's Method reads client.Host from the failed type assertion before
\* testing ok (nmq.go:53-62): on the placeholder, whose Client is nil, it
\* dereferences a nil *Client.
RequestPanics(w) == cur[w] = Placeholder /\ Module = "nmq"

(***************************************************************************)
(* What one ins.Request returns.  Instance.Request (ral.go:71-107) passes *)
(* its nil checks for listed instances and the placeholder alike (both    *)
(* have res, and the module is registered) and returns what the module's  *)
(* Method returns.  The request encoding and the transport are abstracted *)
(* to success ("ok") or an error ("err").                                 *)
(***************************************************************************)
\* Steps run in order, the first error ending the method: the outcomes
\* the method can return, given what each step can return.
InOrder(check, send, after) ==
  {IF c = "err" THEN "err" ELSE IF s = "err" THEN "err" ELSE a :
     c \in check, s \in send, a \in after}

\* http Client.Check (http/client.go:81-135): ERR_NOT_FOUND_PATH without a
\* path header, ERR_NOT_FOUND_ENCODE without an encode type, or an Encode
\* error; the request is accepted otherwise.
HttpCheck == {"ok", "err"}

\* http Client.Send (http/client.go:137-179): an mcpack body that is not a
\* string, or the first error of goreq's EndBytes.
HttpSend == {"ok", "err"}

\* http Client.After (http/client.go:180-185): Decode of the reply.
HttpAfter == {"ok", "err"}

\* http's Method (http.go:48-98): the type assertion fails on the
\* placeholder's nil Client (ERR_NOT_FOUND_CLIENT); otherwise Check, then
\* Send, then After unless Send failed.
HttpMethod(w) == IF cur[w] = Placeholder THEN {"err"}
                 ELSE InOrder(HttpCheck, HttpSend, HttpAfter)

\* nmq Client.Check (nmq/client.go:69-96): ERR_NOT_FOUND_ENCODE without an
\* encode type, or an Encode error.
NmqCheck == {"ok", "err"}

\* nmq Client.After (nmq/client.go:98-105): the error of agent.Send, else
\* Decode of the reply; agent.Send itself is the mcpack transport.
NmqAfter == {"ok", "err"}

\* nmq's Method (nmq.go:51-113): panics on the placeholder (RequestPanics);
\* otherwise Check, then agent.Send, whose error After returns.
NmqMethod(w) == IF RequestPanics(w) THEN {"panic"}
                ELSE InOrder(NmqCheck, {"ok", "err"}, NmqAfter)

\* redis's Method (redis.go:163-165) returns nil, nil.
RedisMethod(w) == {"ok"}

Request(w) ==
  CASE Module = "http"  -> HttpMethod(w)
    [] Module = "nmq"   -> NmqMethod(w)
    [] Module = "redis" -> RedisMethod(w)

\* One attempt: a panic unwinds Retry and runs the deferred Release; a
\* success returns; an error before the last attempt re-selects.
Call(w) ==
  /\ wpc[w] = "call"
  /\ \E r \in Request(w) :
       \/ /\ r = "panic"
          /\ panicked' = TRUE
          /\ Finish(w)
       \/ /\ r = "ok"
          /\ Finish(w)
          /\ UNCHANGED panicked
       \/ /\ r = "err"
          /\ attempt[w] = RetryCap
          /\ Finish(w)
          /\ UNCHANGED panicked
       \/ /\ r = "err"
          /\ attempt[w] < RetryCap
          /\ GetInstanceCheck(w, TRUE)
          /\ UNCHANGED <<count, panicked>>
  /\ UNCHANGED <<list, listNil, total, addr, sub, poolOpen, refreshVars,
                 order, strategy, which, seen, served>>

Init ==
  /\ list = [r \in Res |-> <<>>]
  /\ listNil = [r \in Res |-> TRUE]
  /\ count = [r \in Res |-> 0]
  /\ total = [r \in Res |-> 0]
  /\ order = 0
  /\ strategy \in Strategies
  /\ addr = [i \in Ids |-> NoAddr]
  /\ sub = [i \in Ids |-> NoIns]
  /\ poolOpen = {}
  /\ rpc = "idle"
  /\ reported = {}
  /\ toAdd = <<>>
  /\ toDel = {}
  /\ wpc = [w \in Workers |-> "idle"]
  /\ cur = [w \in Workers |-> NoIns]
  /\ which = [w \in Workers |-> 0]
  /\ seen = [w \in Workers |-> 0]
  /\ retrying = [w \in Workers |-> FALSE]
  /\ attempt = [w \in Workers |-> 0]
  /\ served = 0
  /\ panicked = FALSE

Next ==
  \/ DownloadFetch
  \/ DownloadAdd
  \/ DownloadDel
  \/ \E w \in Workers : Start(w) \/ GetInstanceLock(w) \/ GetInstancePick(w)
                         \/ Call(w)

Spec == Init /\ [][Next]_vars

(***************************************************************************)
(* Properties.                                                             *)
(***************************************************************************)
TypeOK ==
  /\ \A r \in Res : list[r] \in Seq(Ids) /\ Len(list[r]) <= Cardinality(Ids)
  /\ listNil \in [Res -> BOOLEAN]
  /\ count \in [Res -> -MaxCount..MaxCount]
  /\ total \in [Res -> 0..Cardinality(Ids)]
  /\ order \in 0..(OrderMod - 1)
  /\ strategy \in Strategies
  /\ addr \in [Ids -> Addrs \cup {NoAddr}]
  /\ sub \in [Ids -> Ids \cup {NoIns}]
  /\ poolOpen \subseteq Ids
  /\ rpc \in {"idle", "sync"}
  /\ reported \subseteq Addrs
  /\ toAdd \in Seq(Addrs)
  /\ toDel \subseteq Ids
  /\ wpc \in [Workers -> {"idle", "lock", "pick", "call"}]
  /\ cur \in [Workers -> Ids \cup {NoIns, Placeholder}]
  /\ which \in [Workers -> 0..MaxCount]
  /\ attempt \in [Workers -> 0..RetryCap]
\* Spec 3: count <= len(list).  GetInstance's self-healing count-- and
\* Release's count++ must never leave count above the number of instances
\* listed, or a selection would index past the list.
CountNeverAheadOfList == \A r \in Res : count[r] <= Len(list[r])

\* Cascade (spec 4.2): DepRes lists exactly the sub-instances Append made
\* for the instances NamingRes lists, so AddInstance/DelInstance on the
\* naming resource never leave an endpoint of DepRes orphaned or missing.
DepMirrorsNaming ==
  ToSet(list[DepRes]) = {sub[i] : i \in ToSet(list[NamingRes])} \ {NoIns}

\* Copies of endpoint a that NamingRes lists
Copies(a) ==
  Cardinality({k \in DOMAIN list[NamingRes] : addr[list[NamingRes][k]] = a})

\* After zns.Download has applied a naming response, the naming resource
\* lists each healthy endpoint of the response exactly once and no other.
DownloadMirrorsNaming ==
  rpc = "idle" =>
    \A a \in Addrs : Copies(a) = IF a \in reported THEN 1 ELSE 0

\* Spec 8: GetInstance reports a missing instance as ERR_NOT_FOUND_INSTANCE
\* and a call on an unusable instance fails with an error: neither the
\* selection under RLock nor the module's Method may panic the caller.
CallNeverPanics == ~panicked

\* Spec 4.3/8: GetInstance fails with ERR_NOT_FOUND_INSTANCE only when no
\* instance is listed: whenever DepRes lists instances, count is positive.
ListedInstancesReachable == Len(list[DepRes]) > 0 => count[DepRes] > 0

\* Spec 8: "order" visits the list round-robin regardless of concurrent
\* readers: once no reader is inside GetInstance's RLock section, order has
\* advanced once per selection made.
RoundRobinTakesEveryTurn == NoReader => order = served

\* Spec 4.2: Remove releases the module client of the sub-instance it
\* removes: a connection pool is open only for an instance DepRes lists.
RemovedPoolsClosed == poolOpen \subseteq ToSet(list[DepRes])

=============================================================================
