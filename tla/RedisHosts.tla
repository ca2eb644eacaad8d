----------------------------- MODULE RedisHosts -----------------------------
(***************************************************************************)
(* What the naming-driven redis client of src/redis/refresh.go promises,  *)
(* for one service name, in terms of the arguments of each call:          *)
(* RedisInit(hosts) on a name not yet stored serves each of hosts with    *)
(* one pool; RedisRefresh(slAdds, slDels) on a stored name serves the     *)
(* hosts it served, plus those of slAdds, minus those of slDels, unless   *)
(* slDels is longer than the pools and slAdds together.  served is a bag: *)
(* host -> the number of pools the client keeps for it, so a host served  *)
(* twice is a different state from a host served once.  call records the *)
(* last call and its arguments, so each step is tied to what was passed;  *)
(* a call the client refuses leaves served as it was.                     *)
(***************************************************************************)
EXTENDS Naturals, Bags, FiniteSets, SequencesExt

CONSTANTS
  Hosts,    \* host:port values
  MaxArgs   \* longest hosts, slAdds or slDels slice a caller passes

VARIABLES
  inited,  \* the service name is stored
  served,  \* bag of hosts: the pools the client keeps per host
  call     \* the last call: [op, a (hosts or slAdds), d (slDels)]

vars == <<inited, served, call>>

Args == BoundedSeq(Hosts, MaxArgs)
Calls == [op : {"none", "init", "refresh"}, a : Args, d : Args]
NoCall == [op |-> "none", a |-> <<>>, d |-> <<>>]

Init ==
  /\ inited = FALSE
  /\ served = EmptyBag
  /\ call = NoCall

\* RedisInit is refused with an empty host list or a stored name
InitRefused(hs) == hs = <<>> \/ inited

\* RedisRefresh is refused for an unknown name, does nothing without
\* arguments, and refuses more deletions than pools and additions
RefreshRefused(adds, dels) ==
  \/ ~inited
  \/ adds = <<>> /\ dels = <<>>
  \/ BagCardinality(served) + Len(adds) < Len(dels)

InitHosts(hs) ==
  /\ call' = [op |-> "init", a |-> hs, d |-> <<>>]
  /\ IF InitRefused(hs)
       THEN UNCHANGED <<inited, served>>
       ELSE /\ inited' = TRUE
            /\ served' = SetToBag(ToSet(hs))

Refresh(adds, dels) ==
  /\ call' = [op |-> "refresh", a |-> adds, d |-> dels]
  /\ IF RefreshRefused(adds, dels)
       THEN UNCHANGED served
       ELSE served' = SetToBag((BagToSet(served) \cup ToSet(adds)) \ ToSet(dels))
  /\ UNCHANGED inited

Next ==
  \/ \E hs \in Args : InitHosts(hs)
  \/ \E adds, dels \in Args : Refresh(adds, dels)

Spec == Init /\ [][Next]_vars
=============================================================================
