------------------------------ MODULE Registry ------------------------------
(***************************************************************************)
(* The registry bootstrap and the dependency cascade of src/ral/ral.go:   *)
(*   - the goroutine running ral.Init(dir) (ral.go:426-498): AddResource  *)
(*     for every configuration file, then, over the resources map, the    *)
(*     manual endpoints of a resource (module Append on itself, then      *)
(*     AddInstance) or AddResource of the naming resource it uses;        *)
(*   - the zns.Refresh goroutine (src/zns/zns.go), which adds and deletes *)
(*     instances of the naming resources in resList, the list the zns     *)
(*     module's Config hook appends to (zns.go:160-165).                  *)
(* AddInstance and DelInstance (ral.go:294-357) take the resource's Lock  *)
(* and keep it while they recurse into the dependent resources, so each   *)
(* goroutine has a stack of frames, one per nested call.                   *)
(* A resource is named by its key <<Type, Name>>; count, total and the    *)
(* order of a list are left out (Ral models them).                         *)
(***************************************************************************)
EXTENDS Naturals, Sequences, FiniteSets, SequencesExt, Relation

CONSTANTS
  Files,      \* the configuration files, in ioutil.ReadDir order
  Endpoints,  \* ip:port values the naming service may report
  Ids,        \* Instance objects
  NoG,        \* no goroutine (an unlocked mutex)
  NoKey       \* Instance.res of an instance not yet added

(***************************************************************************)
(* A file is a record: key, manual (Manual[env.IDC], a sequence of        *)
(* endpoints), othermanual (Manual has endpoints for another IDC), zns    *)
(* (ZNS.Name), idc (ZNS.IDC[env.IDC], "" when absent) and depend (the     *)
(* configured Depend, a sequence of keys).                                 *)
(***************************************************************************)
Gs == {"main", "refresh"}
ZnsKey(n) == <<"zns", n>>
FileKeys == {Files[i].key : i \in DOMAIN Files}
FileOf(k) == Files[CHOOSE i \in DOMAIN Files : Files[i].key = k]
\* len(res.Manual) > 0: the test of ral.go:277 and 448, over every IDC
HasManual(f) == f.manual # <<>> \/ f.othermanual
NamesUsed == {Files[i].zns : i \in DOMAIN Files} \cup {Files[i].idc : i \in DOMAIN Files}
Keys == FileKeys \cup {ZnsKey(n) : n \in NamesUsed \ {""}}
          \cup UNION {ToSet(Files[i].depend) : i \in DOMAIN Files}

\* The types whose module has Append/Remove hooks (http, nmq, redis,
\* hbase); hbase's Append dials in pool.NewChannelPool and can fail
\* (hbase_module.go:158-164).
HookTypes == {"http", "nmq", "redis", "hbase"}
AppendMayFail(k) == k[1] = "hbase"

ASSUME /\ \A i, j \in DOMAIN Files : Files[i].key = Files[j].key => i = j
       /\ \A k \in Keys \ FileKeys : k[1] = "zns"
       /\ \A k \in FileKeys : Len(FileOf(k).manual) > 0 => k[1] \in HookTypes

VARIABLES
  resources,  \* keys in the resources map
  dependons,  \* dependons[k]: the resources that depend on k, in order
  resList,    \* zns resList: naming names, in order of registration
  list,       \* list[k]: Resource.list, as a set of instances
  insRes,     \* insRes[i]: Instance.res
  subs,       \* subs[i]: Instance.subs
  ep,         \* ep[i]: Instance.IP:Port
  owner,      \* owner[k]: the goroutine holding Resource.lock of k
  stack,      \* stack[g]: the AddInstance/DelInstance frames of g
  mpc,        \* Init: "load", "wire", "manual", "done" or "failed"
  next,       \* Init: index of the next file to load
  unvisited,  \* Init: resources the loop over the map has still to visit
  cur,        \* Init: the manual resource being filled
  pending,    \* Init: its endpoints still to add
  aborted     \* history: instances whose AddInstance returned an error

vars == <<resources, dependons, resList, list, insRes, subs, ep, owner,
          stack, mpc, next, unvisited, cur, pending, aborted>>
initVars == <<mpc, next, unvisited, cur, pending>>

\* A frame of AddInstance ("add") or DelInstance ("del") of instance ins
\* on resource res; st is "lock" before Lock() returns and "run" after;
\* todo is what the cascade loop has still to visit.
FrameOK(f) ==
  /\ f \in [op : {"add", "del"}, res : Keys, ins : Ids, st : {"lock", "run"},
            todo : Seq(IF f.op = "add" THEN Keys ELSE Ids)]
Call(op, k, i) == [op |-> op, res |-> k, ins |-> i, st |-> "lock", todo |-> <<>>]

Listed == UNION {list[k] : k \in Keys}
FramesOf(g) == {stack[g][n] : n \in DOMAIN stack[g]}
InUse == Listed
           \cup {f.ins : f \in UNION {FramesOf(g) : g \in Gs}}
           \cup UNION {ToSet(f.todo) : f \in {f \in UNION {FramesOf(g) : g \in Gs} : f.op = "del"}}
FreeIds == Ids \ InUse
NewId == Min(FreeIds)

(***************************************************************************)
(* AddResource (ral.go:262-286): a key already present returns the        *)
(* existing resource (the check is GetResource, 263); otherwise, under    *)
(* the global lock, the resource is stored, its module's Config runs (the *)
(* zns Config appends it to resList), a resource with no manual endpoints *)
(* and a ZNS.Name gets Depend = ["zns:"+Name] (277-279), and it is        *)
(* appended to dependons of every key in Depend.                           *)
(***************************************************************************)
\* Mutant: no Depend synthesised from ZNS.Name (ral.go:277-279 missing)
EffDependConfigured(f) == f.depend

EffDepend(f) ==
  IF ~HasManual(f) /\ f.zns # "" THEN <<ZnsKey(f.zns)>> ELSE f.depend

\* Mutant: the resource also recorded under its own key
AddResourceSelfKey(k, dep) ==
  IF k \in resources THEN UNCHANGED <<resources, dependons, resList>>
  ELSE /\ resources' = resources \cup {k}
       /\ resList' = IF k[1] = "zns" THEN Append(resList, k[2]) ELSE resList
       /\ dependons' = [d \in Keys |->
                          IF d \in ToSet(dep) \/ (d = k /\ dep # <<>>)
                            THEN Append(dependons[d], k) ELSE dependons[d]]

AddResource(k, dep) ==
  IF k \in resources THEN UNCHANGED <<resources, dependons, resList>>
  ELSE /\ resources' = resources \cup {k}
       /\ resList' = IF k[1] = "zns" THEN Append(resList, k[2]) ELSE resList
       /\ dependons' = [d \in Keys |->
                          IF d \in ToSet(dep) THEN Append(dependons[d], k)
                          ELSE dependons[d]]

(***************************************************************************)
(* Init, first loop (ral.go:438-445): one AddResource per file.           *)
(***************************************************************************)
LoadFile ==
  /\ mpc = "load"
  /\ LET f == Files[next] IN AddResource(f.key, EffDepend(f))
  /\ next' = next + 1
  /\ IF next = Len(Files)
       THEN mpc' = "wire" /\ unvisited' = FileKeys
       ELSE UNCHANGED <<mpc, unvisited>>
  /\ UNCHANGED <<list, insRes, subs, ep, owner, stack, cur, pending, aborted>>

(***************************************************************************)
(* Init, second loop (ral.go:447-496), in map order: a resource with      *)
(* manual endpoints for any IDC starts adding those of env.IDC (none, if  *)
(* only other IDCs have some); any other resource adds the                *)
(* naming resource of its ZNS.Name, or else of ZNS.IDC[env.IDC].  The     *)
(* naming resources the loop adds are also visited, or not, by the range  *)
(* over the map; they have neither, so visiting one does nothing.          *)
(***************************************************************************)
Resolved(f) == IF f.zns # "" THEN f.zns ELSE f.idc

Visit(k) ==
  LET f == FileOf(k) IN
  /\ mpc = "wire"
  /\ k \in unvisited
  /\ unvisited' = unvisited \ {k}
  /\ IF HasManual(f)
       THEN /\ mpc' = "manual" /\ cur' = k /\ pending' = f.manual
            /\ UNCHANGED <<resources, dependons, resList>>
       ELSE /\ IF Resolved(f) # "" THEN AddResource(ZnsKey(Resolved(f)), <<>>)
                                    ELSE UNCHANGED <<resources, dependons, resList>>
            /\ mpc' = IF unvisited = {k} THEN "done" ELSE "wire"
            /\ UNCHANGED <<cur, pending>>
  /\ UNCHANGED <<list, insRes, subs, ep, owner, stack, next, aborted>>

(***************************************************************************)
(* Init, manual endpoints (ral.go:449-467): module Append on the resource *)
(* itself builds the instance (an hbase Append error makes Init return    *)
(* it), then AddInstance(res.Type, res.Name, ins) runs as a nested call;  *)
(* its error also makes Init return.                                       *)
(***************************************************************************)
ManualAppend ==
  /\ mpc = "manual"
  /\ stack["main"] = <<>>
  /\ pending # <<>>
  /\ \/ /\ FreeIds # {}
        /\ stack' = [stack EXCEPT !["main"] = <<Call("add", cur, NewId)>>]
        /\ ep' = [ep EXCEPT ![NewId] = Head(pending)]
        /\ subs' = [subs EXCEPT ![NewId] = <<>>]
        /\ aborted' = aborted \ {NewId}
        /\ pending' = Tail(pending)
        /\ UNCHANGED mpc
     \/ /\ AppendMayFail(cur)
        /\ mpc' = "failed"
        /\ UNCHANGED <<stack, ep, subs, aborted, pending>>
  /\ UNCHANGED <<resources, dependons, resList, list, insRes, owner, next,
                 unvisited, cur>>

ManualDone ==
  /\ mpc = "manual"
  /\ stack["main"] = <<>>
  /\ pending = <<>>
  /\ mpc' = IF unvisited = {} THEN "done" ELSE "wire"
  /\ UNCHANGED <<resources, dependons, resList, list, insRes, subs, ep, owner,
                 stack, next, unvisited, cur, pending, aborted>>

(***************************************************************************)
(* zns.Download (zns.go:99-122), one call at a time: AddInstance of a     *)
(* reported endpoint the naming resource does not list, or DelInstance of *)
(* a listed instance no longer reported.  Ral models the diff itself.     *)
(***************************************************************************)
RefreshAdd(n, e) ==
  /\ stack["refresh"] = <<>>
  /\ n \in ToSet(resList)
  /\ e \notin {ep[i] : i \in list[ZnsKey(n)]}
  /\ FreeIds # {}
  /\ stack' = [stack EXCEPT !["refresh"] = <<Call("add", ZnsKey(n), NewId)>>]
  /\ ep' = [ep EXCEPT ![NewId] = e]
  /\ subs' = [subs EXCEPT ![NewId] = <<>>]
  /\ aborted' = aborted \ {NewId}
  /\ UNCHANGED <<resources, dependons, resList, list, insRes, owner, initVars>>

RefreshDel(n, i) ==
  /\ stack["refresh"] = <<>>
  /\ n \in ToSet(resList)
  /\ i \in list[ZnsKey(n)]
  /\ stack' = [stack EXCEPT !["refresh"] = <<Call("del", ZnsKey(n), i)>>]
  /\ UNCHANGED <<resources, dependons, resList, list, insRes, subs, ep, owner,
                 initVars, aborted>>

(***************************************************************************)
(* The body of one AddInstance/DelInstance call: g's innermost frame.     *)
(***************************************************************************)
Top(g) == Last(stack[g])
SetTop(g, fr) == stack' = [stack EXCEPT ![g] = [stack[g] EXCEPT ![Len(stack[g])] = fr]]

\* Mutant: AddInstance not setting ins.res (ral.go:307)
LockNoRes(g) ==
  LET f == Top(g) IN
  /\ stack[g] # <<>>
  /\ f.st = "lock"
  /\ owner[f.res] = NoG
  /\ owner' = [owner EXCEPT ![f.res] = g]
  /\ IF f.op = "add"
       THEN /\ list' = [list EXCEPT ![f.res] = @ \cup {f.ins}]
            /\ SetTop(g, [f EXCEPT !.st = "run", !.todo = dependons[f.res]])
       ELSE /\ list' = [list EXCEPT ![f.res] = @ \ {f.ins}]
            /\ SetTop(g, [f EXCEPT !.st = "run", !.todo = subs[f.ins]])
  /\ UNCHANGED <<resources, dependons, resList, insRes, subs, ep, initVars, aborted>>

\* res.lock.Lock(), then the resource-local part: AddInstance lists ins
\* and sets ins.res (ral.go:303-309); DelInstance unlists it (332-345).
\* The cascade loop then ranges over dependons[key] or ins.subs.
Lock(g) ==
  LET f == Top(g) IN
  /\ stack[g] # <<>>
  /\ f.st = "lock"
  /\ owner[f.res] = NoG
  /\ owner' = [owner EXCEPT ![f.res] = g]
  /\ IF f.op = "add"
       THEN /\ list' = [list EXCEPT ![f.res] = @ \cup {f.ins}]
            /\ insRes' = [insRes EXCEPT ![f.ins] = f.res]
            /\ SetTop(g, [f EXCEPT !.st = "run", !.todo = dependons[f.res]])
       ELSE /\ list' = [list EXCEPT ![f.res] = @ \ {f.ins}]
            /\ SetTop(g, [f EXCEPT !.st = "run", !.todo = subs[f.ins]])
            /\ UNCHANGED insRes
  /\ UNCHANGED <<resources, dependons, resList, subs, ep, initVars, aborted>>

\* An error returned down the stack: every frame returns it (ral.go:313-
\* 319) and its deferred Unlock runs; the subs not yet recorded are lost.
\* Init returns the error (ral.go:452-457, 463-465).
Unwind(g) ==
  /\ owner' = [k \in Keys |-> IF owner[k] = g THEN NoG ELSE owner[k]]
  /\ stack' = [stack EXCEPT ![g] = <<>>]
  /\ aborted' = aborted \cup {f.ins : f \in FramesOf(g)}
  /\ mpc' = IF g = "main" THEN "failed" ELSE mpc

(***************************************************************************)
(* One turn of AddInstance's cascade loop (ral.go:311-322): the module    *)
(* Append of dependent v derives a sub with ins's endpoint, and the       *)
(* nested AddInstance(v.Type, v.Name, sub) starts, res.lock still held.   *)
(* An hbase Append error returns at once.                                  *)
(***************************************************************************)
AddStep(g) ==
  LET f == Top(g)
      v == Head(f.todo)
  IN
  /\ stack[g] # <<>>
  /\ f.op = "add" /\ f.st = "run" /\ f.todo # <<>>
  /\ \/ /\ FreeIds # {}
        /\ stack' = [stack EXCEPT ![g] = Append(@, Call("add", v, NewId))]
        /\ ep' = [ep EXCEPT ![NewId] = ep[f.ins]]
        /\ subs' = [subs EXCEPT ![NewId] = <<>>]
        /\ aborted' = aborted \ {NewId}
        /\ UNCHANGED <<owner, mpc>>
     \/ /\ AppendMayFail(v)
        /\ Unwind(g)
        /\ UNCHANGED <<ep, subs>>
  /\ UNCHANGED <<resources, dependons, resList, list, insRes, next, unvisited,
                 cur, pending>>

(***************************************************************************)
(* One turn of DelInstance's cascade loop (ral.go:347-355): every module  *)
(* with hooks has a Remove that returns true, so the nested               *)
(* DelInstance(v.res.Type, v.res.Name, v) starts, res.lock still held.    *)
(***************************************************************************)
DelStep(g) ==
  LET f == Top(g)
      v == Head(f.todo)
  IN
  /\ stack[g] # <<>>
  /\ f.op = "del" /\ f.st = "run" /\ f.todo # <<>>
  /\ stack' = [stack EXCEPT ![g] = Append(@, Call("del", insRes[v], v))]
  /\ UNCHANGED <<resources, dependons, resList, list, insRes, subs, ep, owner,
                 initVars, aborted>>

\* Mutant: the call returning without its deferred Unlock
ReturnKeepsLock(g) ==
  LET f == Top(g)
      rest == Front(stack[g])
      p == Last(rest)
  IN
  /\ stack[g] # <<>>
  /\ f.st = "run" /\ f.todo = <<>>
  /\ IF rest = <<>>
       THEN stack' = [stack EXCEPT ![g] = <<>>] /\ UNCHANGED subs
       ELSE /\ stack' = [stack EXCEPT ![g] =
                           [rest EXCEPT ![Len(rest)] = [p EXCEPT !.todo = Tail(@)]]]
            /\ subs' = IF p.op = "add" THEN [subs EXCEPT ![p.ins] = Append(@, f.ins)]
                                       ELSE subs
  /\ UNCHANGED <<resources, dependons, resList, list, insRes, ep, owner, initVars, aborted>>

(***************************************************************************)
(* The loop is done: the deferred Unlock runs and the call returns; the   *)
(* caller's loop records the sub in ins.subs (ral.go:320) and moves on.   *)
(***************************************************************************)
Return(g) ==
  LET f == Top(g)
      rest == Front(stack[g])
      p == Last(rest)
  IN
  /\ stack[g] # <<>>
  /\ f.st = "run" /\ f.todo = <<>>
  /\ owner' = [owner EXCEPT ![f.res] = NoG]
  /\ IF rest = <<>>
       THEN stack' = [stack EXCEPT ![g] = <<>>] /\ UNCHANGED subs
       ELSE /\ stack' = [stack EXCEPT ![g] =
                           [rest EXCEPT ![Len(rest)] = [p EXCEPT !.todo = Tail(@)]]]
            /\ subs' = IF p.op = "add" THEN [subs EXCEPT ![p.ins] = Append(@, f.ins)]
                                       ELSE subs
  /\ UNCHANGED <<resources, dependons, resList, list, insRes, ep, initVars, aborted>>

Init ==
  /\ resources = {}
  /\ dependons = [k \in Keys |-> <<>>]
  /\ resList = <<>>
  /\ list = [k \in Keys |-> {}]
  /\ insRes = [i \in Ids |-> NoKey]
  /\ subs = [i \in Ids |-> <<>>]
  /\ ep = [i \in Ids |-> ""]
  /\ owner = [k \in Keys |-> NoG]
  /\ stack = [g \in Gs |-> <<>>]
  /\ mpc = "load" /\ next = 1 /\ unvisited = {} /\ cur = NoKey /\ pending = <<>>
  /\ aborted = {}

Next ==
  \/ LoadFile
  \/ \E k \in FileKeys : Visit(k)
  \/ ManualAppend
  \/ ManualDone
  \/ \E n \in NamesUsed, e \in Endpoints : RefreshAdd(n, e)
  \/ \E n \in NamesUsed, i \in Ids : RefreshDel(n, i)
  \/ \E g \in Gs : Lock(g) \/ AddStep(g) \/ DelStep(g) \/ Return(g)

(***************************************************************************)
(* Fairness.  Init runs to its end on its goroutine; a goroutine inside   *)
(* AddInstance/DelInstance runs to its return.  A Lock that other         *)
(* goroutines keep taking and releasing is granted in the end: sync.Mutex *)
(* hands the lock to a waiter blocked for over 1ms (starvation mode), so  *)
(* Lock is strongly fair.  Refresh starting a new call is not fair: the   *)
(* naming service need not change.                                         *)
(***************************************************************************)
Fairness ==
  /\ WF_vars(LoadFile) /\ WF_vars(\E k \in FileKeys : Visit(k))
  /\ WF_vars(ManualAppend) /\ WF_vars(ManualDone)
  /\ \A g \in Gs : /\ SF_vars(Lock(g))
                   /\ WF_vars(AddStep(g)) /\ WF_vars(DelStep(g)) /\ WF_vars(Return(g))

Spec == Init /\ [][Next]_vars /\ Fairness

(***************************************************************************)
(* Properties.                                                             *)
(***************************************************************************)
TypeOK ==
  /\ resources \subseteq Keys
  /\ dependons \in [Keys -> Seq(Keys)]
  /\ list \in [Keys -> SUBSET Ids]
  /\ insRes \in [Ids -> Keys \cup {NoKey}]
  /\ \A i \in Listed : insRes[i] \in resources
  /\ owner \in [Keys -> Gs \cup {NoG}]
  /\ \A g \in Gs : \A n \in DOMAIN stack[g] : FrameOK(stack[g][n])
  /\ mpc \in {"load", "wire", "manual", "done", "failed"}
  /\ aborted \subseteq Ids

\* The goroutine whose lock g is blocked on in Lock(), if any
Waits(g) == IF stack[g] # <<>> /\ Top(g).st = "lock" THEN owner[Top(g).res] ELSE NoG
WaitsFor == [p \in Gs \X Gs |-> Waits(p[1]) = p[2]]

\* AddInstance and DelInstance keep res.lock across the recursive call
\* into the dependent resource (ral.go:316, 351): with an acyclic
\* configuration no goroutine ever waits, directly or through others, for
\* a lock it holds itself, so Init and Refresh never deadlock.
NoLockCycle == IsIrreflexive(TransitiveClosure(WaitsFor, Gs), Gs)

Quiescent == \A g \in Gs : stack[g] = <<>>
IsManual(k) == k \in FileKeys /\ HasManual(FileOf(k))

\* Between calls, every instance a dependent resource lists is a sub that
\* a listed instance of the resource it depends on recorded in ins.subs,
\* so DelInstance's cascade (ral.go:347-355) can reach it and no endpoint
\* the naming service dropped stays in use.  An Append error two levels
\* down a cascade returns through AddInstance (ral.go:316-319) after the
\* middle sub was listed and before it was recorded; zns.Download only
\* logs the error (zns.go:107-109) and the process keeps running.
NoOrphanSub ==
  Quiescent =>
    \A k \in Keys : \A j \in list[k] :
      k[1] = "zns" \/ IsManual(k) \/ \E i \in Listed : j \in ToSet(subs[i])

\* Spec 4.1/4.2: a resource configured to take its endpoints from a naming
\* service receives, between calls, a sub of every instance its naming
\* resource lists (unless that AddInstance returned an Append error).
\* Init resolves the name from ZNS.Name or ZNS.IDC (ral.go:470-474).
CascadeReachesDependents ==
  Quiescent =>
    \A k \in FileKeys :
      LET f == FileOf(k) IN
      ~HasManual(f) /\ Resolved(f) # "" =>
        \A i \in list[ZnsKey(Resolved(f))] \ aborted :
          \E j \in ToSet(subs[i]) : j \in list[k]

\* ral.Init returns, with nil or an error, however Refresh interleaves.
InitTerminates == <>(mpc \in {"done", "failed"})
=============================================================================
