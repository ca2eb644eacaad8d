---------------------------- MODULE RedisRefresh ----------------------------
(***************************************************************************)
(* The naming-driven redis client of src/redis/refresh.go: RedisInit      *)
(* stores a RedisClient with one connection pool per host, RedisRefresh   *)
(* adds pools for new hosts (newAddRedis) and closes and removes those of *)
(* deleted hosts (removeRedis), keeping hIndex (host -> index in pools)   *)
(* rebuilt (rebuildHostToIndex).  RedisRefresh runs under the exclusive   *)
(* redisRefreshRWLock, so each call is one step; the model has one        *)
(* service name.  A pool is an object from PoolIds.                       *)
(***************************************************************************)
EXTENDS Naturals, Sequences, FiniteSets, SequencesExt

CONSTANTS
  Hosts,     \* host:port values
  PoolIds,   \* redis.Pool objects
  MaxArgs,   \* longest hosts, slAdds or slDels slice a caller passes
  DupHosts   \* whether RedisInit may be passed one host twice

VARIABLES
  inited,    \* serviceMap holds the service
  pools,     \* RedisClient.pools: a sequence of [host, pool]
  hIndex,    \* RedisClient.hIndex: host -> index (1-based) in pools
  open,      \* pools created by getPool and not closed
  ret,       \* the error the last call returned ("nil" for nil)
  call       \* history: the last call and its arguments [op, a, d]

vars == <<inited, pools, hIndex, open, ret, call>>

Args == BoundedSeq(Hosts, MaxArgs)
Distinct(s) == \A i, j \in DOMAIN s : i # j => s[i] # s[j]

\* Pools no longer referenced and closed can be reused as objects
FreePools(ps, op) == PoolIds \ (op \cup {ps[i].pool : i \in DOMAIN ps})

(***************************************************************************)
(* rebuildHostToIndex (refresh.go:226-233): the map from each host to its *)
(* index, the later index winning when a host appears twice.              *)
(***************************************************************************)
\* Mutant: indices kept 0-based as in Go but read as 1-based
RebuildHostToIndexZeroBased(ps) ==
  [h \in {ps[i].host : i \in DOMAIN ps} |-> SelectLastInSeq(ps, LAMBDA p : p.host = h) - 1]

RebuildHostToIndex(ps) ==
  [h \in {ps[i].host : i \in DOMAIN ps} |-> SelectLastInSeq(ps, LAMBDA p : p.host = h)]

(***************************************************************************)
(* RedisInit (refresh.go:38-76): one pool per host, hIndex[host] set in   *)
(* order (the later one wins), then the client is stored.                  *)
(***************************************************************************)
InitPools(hs) ==
  LET step(acc, h) ==
        LET p == Min(FreePools(acc.ps, acc.op))
        IN [ps |-> Append(acc.ps, [host |-> h, pool |-> p]), op |-> acc.op \cup {p}]
  IN FoldLeft(step, [ps |-> <<>>, op |-> open], hs)

RedisInit(hs) ==
  /\ call' = [op |-> "init", a |-> hs, d |-> <<>>]
  /\ \/ /\ hs = <<>>
        /\ ret' = "ParamsErr"
        /\ UNCHANGED <<inited, pools, hIndex, open>>
     \/ /\ hs # <<>> /\ inited
        /\ ret' = "HasServerNameErr"
        /\ UNCHANGED <<inited, pools, hIndex, open>>
     \/ /\ hs # <<>> /\ ~inited
        /\ DupHosts \/ Distinct(hs)
        /\ Len(hs) <= Cardinality(FreePools(<<>>, open))
        /\ LET r == InitPools(hs) IN
             /\ pools' = r.ps
             /\ open' = r.op
             /\ hIndex' = RebuildHostToIndex(r.ps)
        /\ inited' = TRUE
        /\ ret' = "nil"

(***************************************************************************)
(* newAddRedis (refresh.go:178-202): a host without an hIndex entry gets  *)
(* a new pool appended and its entry; then hIndex is rebuilt.             *)
(***************************************************************************)
\* Mutant: the existence check reads a host set taken before the loop,
\* so a host passed twice in slAdds gets two pools
NewAddRedisStaleCheck(st, adds) ==
  LET step(acc, h) ==
        IF h \in DOMAIN st.idx THEN acc
        ELSE LET p == Min(FreePools(acc.ps, acc.op))
             IN [acc EXCEPT !.ps = Append(acc.ps, [host |-> h, pool |-> p]),
                            !.op = acc.op \cup {p}]
      r == FoldLeft(step, st, adds)
  IN [r EXCEPT !.idx = RebuildHostToIndex(r.ps)]

NewAddRedis(st, adds) ==
  LET step(acc, h) ==
        IF h \in DOMAIN acc.idx THEN acc
        ELSE LET p == Min(FreePools(acc.ps, acc.op))
                 ps2 == Append(acc.ps, [host |-> h, pool |-> p])
             IN [ps |-> ps2, op |-> acc.op \cup {p},
                 idx |-> [x \in DOMAIN acc.idx \cup {h} |->
                            IF x = h THEN Len(ps2) ELSE acc.idx[x]]]
      r == FoldLeft(step, st, adds)
  IN [r EXCEPT !.idx = RebuildHostToIndex(r.ps)]

(***************************************************************************)
(* removeRedis (refresh.go:204-224): for a host with an hIndex entry      *)
(* inside the slice, the pool is cut out of pools in place, hIndex is     *)
(* rebuilt and the pool closed.                                            *)
(***************************************************************************)
\* Mutant: hIndex is not rebuilt after a pool is cut out
RemoveRedisNoRebuild(st, dels) ==
  LET step(acc, h) ==
        IF h \in DOMAIN acc.idx /\ acc.idx[h] <= Len(acc.ps)
          THEN [acc EXCEPT !.ps = RemoveAt(acc.ps, acc.idx[h]),
                           !.op = acc.op \ {acc.ps[acc.idx[h]].pool}]
          ELSE acc
  IN FoldLeft(step, st, dels)

\* Mutant: the removed pool is never closed
RemoveRedisNoClose(st, dels) ==
  LET step(acc, h) ==
        IF h \in DOMAIN acc.idx /\ acc.idx[h] <= Len(acc.ps)
          THEN LET ps2 == RemoveAt(acc.ps, acc.idx[h])
               IN [acc EXCEPT !.ps = ps2, !.idx = RebuildHostToIndex(ps2)]
          ELSE acc
  IN FoldLeft(step, st, dels)

RemoveRedis(st, dels) ==
  LET step(acc, h) ==
        IF h \in DOMAIN acc.idx /\ acc.idx[h] <= Len(acc.ps)
          THEN LET ps2 == RemoveAt(acc.ps, acc.idx[h])
               IN [ps |-> ps2, op |-> acc.op \ {acc.ps[acc.idx[h]].pool},
                   idx |-> RebuildHostToIndex(ps2)]
          ELSE acc
  IN FoldLeft(step, st, dels)

\* The pools a refresh needs exist (a bound of the model, not the code)
PoolsFor(adds) == Cardinality(ToSet(adds)) <= Cardinality(FreePools(pools, open))

(***************************************************************************)
(* RedisRefresh (refresh.go:150-176).                                      *)
(***************************************************************************)
RedisRefreshStep(adds, dels) ==
  \/ /\ ~inited
     /\ ret' = "NotExistServerNameErr"
     /\ UNCHANGED <<inited, pools, hIndex, open>>
  \/ /\ inited /\ adds = <<>> /\ dels = <<>>
     /\ ret' = "nil"
     /\ UNCHANGED <<inited, pools, hIndex, open>>
  \/ /\ inited /\ (adds # <<>> \/ dels # <<>>)
     /\ Len(pools) + Len(adds) < Len(dels)
     /\ ret' = "RemoveNodeErr"
     /\ UNCHANGED <<inited, pools, hIndex, open>>
  \/ /\ inited /\ (adds # <<>> \/ dels # <<>>)
     /\ Len(pools) + Len(adds) >= Len(dels)
     /\ PoolsFor(adds)
     /\ LET r == RemoveRedis(NewAddRedis([ps |-> pools, op |-> open, idx |-> hIndex], adds), dels)
        IN /\ pools' = r.ps
           /\ open' = r.op
           /\ hIndex' = r.idx
     /\ ret' = "NotExistServerNameErr"
     /\ UNCHANGED inited

RedisRefresh(adds, dels) ==
  /\ call' = [op |-> "refresh", a |-> adds, d |-> dels]
  /\ RedisRefreshStep(adds, dels)

Init ==
  /\ inited = FALSE
  /\ pools = <<>>
  /\ hIndex = [h \in {} |-> 1]
  /\ open = {}
  /\ ret = "nil"
  /\ call = [op |-> "none", a |-> <<>>, d |-> <<>>]

Next ==
  \/ \E hs \in Args : RedisInit(hs)
  \/ \E adds, dels \in Args : RedisRefresh(adds, dels)

Spec == Init /\ [][Next]_vars

(***************************************************************************)
(* Properties.                                                             *)
(***************************************************************************)
TypeOK ==
  /\ inited \in BOOLEAN
  /\ pools \in Seq([host : Hosts, pool : PoolIds])
  /\ DOMAIN hIndex \subseteq Hosts
  /\ \A h \in DOMAIN hIndex : hIndex[h] \in 1..Len(pools)
  /\ open \subseteq PoolIds
  /\ ret \in {"nil", "ParamsErr", "HasServerNameErr", "NotExistServerNameErr",
              "RemoveNodeErr"}

\* removeRedis finds the pool to cut through hIndex: after any sequence of
\* RedisInit/RedisRefresh calls, hIndex names exactly the hosts in pools
\* and each entry points at a pool of that host.
IndexMatchesPools ==
  /\ DOMAIN hIndex = {pools[i].host : i \in DOMAIN pools}
  /\ \A h \in DOMAIN hIndex : pools[hIndex[h]].host = h

\* removeRedis closes the pool it cuts out and no pool is closed while
\* pools still holds it: the open pools are exactly those in pools.
OpenPoolsListed == open = {pools[i].pool : i \in DOMAIN pools}

(***************************************************************************)
(* Refinement: the client implements RedisHosts, served being the bag of  *)
(* the hosts of pools.                                                      *)
(***************************************************************************)
HostsOf(ps) == [i \in DOMAIN ps |-> ps[i].host]

Abstract == INSTANCE RedisHosts WITH served <- ToBag(HostsOf(pools))

\* Every RedisInit/RedisRefresh call is the RedisHosts step of the same
\* call with the same arguments: newAddRedis gives each host of slAdds
\* not yet served exactly one pool, removeRedis takes away the pools of
\* exactly the hosts of slDels, whatever the order of the two lists and
\* the index shifts removeRedis makes, and a refused call changes nothing.
ImplementsRedisHosts == Abstract!Spec
=============================================================================
