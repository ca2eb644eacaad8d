------------------------------ MODULE RedisLock ------------------------------
(***************************************************************************)
(* The redis lock of src/redis/lock.go over the ral-based client of       *)
(* src/redis/redis.go.  Each caller takes a Redis with GetInstance and    *)
(* calls SetNxByEX (or SetNxByPX) once: tryLock sends                     *)
(* SET key value EX|PX expire NX through Redis.Do, which runs             *)
(* Instance.Retry: one attempt per instance, up to Resource.Retry retries,*)
(* the next instance taken with ral.GetInstance.  The instances of one    *)
(* redis resource are taken to serve one keyspace, so there is one key.   *)
(* An attempt may be answered, may fail before redis applies it, or may   *)
(* be applied with its reply lost (a read timeout).  The key's expiry is  *)
(* the server's, at any time.                                              *)
(***************************************************************************)
EXTENDS Naturals

CONSTANTS
  Callers,      \* goroutines that each call SetNxByEX once
  RetryConf,    \* Resource.Retry of the redis resource
  MaxExpiries,  \* expiries of the key in one behaviour
  None          \* the key is absent

ASSUME None \notin Callers

VARIABLES
  key,       \* the caller whose value the key holds, or None
  lease,     \* expiries of the key so far: the epoch of the current key
  pc,        \* "idle", "do" (inside Redis.Do) or "done"
  zeroTTL,   \* the caller passed expire = 0
  attempt,   \* loop index i of Instance.Retry
  onClient,  \* curIns.Client is a *RedisClient (not the placeholder)
  reply,     \* Do's named result reply: "OK", "nil" or "ERR" (redis.Error)
  ret        \* what tryLock returned: "none", "true", "false" or "err"

vars == <<key, lease, pc, zeroTTL, attempt, onClient, reply, ret>>

\* Instance.Retry clamps Resource.Retry to [0,3] (ral.go:133-139)
RetryCap == IF RetryConf < 0 THEN 0 ELSE IF RetryConf > 3 THEN 3 ELSE RetryConf

\* redis.GetInstance (redis.go:170-188) fails when ral.GetInstance fails
\* or returns a Client that is not a *RedisClient: no Redis, no call.
\* tryLock's "value is empty" return, before any command, is the same step.
GetInstanceFails(c) ==
  /\ ret' = [ret EXCEPT ![c] = "err"]
  /\ pc' = [pc EXCEPT ![c] = "done"]
  /\ UNCHANGED <<zeroTTL, attempt, onClient, reply>>

\* SetNxByEX/SetNxByPX call tryLock (lock.go:16-31), whose Redis.Do starts
\* its Retry on the instance GetInstance gave.
Begin(c) ==
  /\ pc[c] = "idle"
  /\ \/ GetInstanceFails(c)
     \/ /\ pc' = [pc EXCEPT ![c] = "do"]
        /\ \E z \in BOOLEAN : zeroTTL' = [zeroTTL EXCEPT ![c] = z]
        /\ attempt' = [attempt EXCEPT ![c] = 0]
        /\ onClient' = [onClient EXCEPT ![c] = TRUE]
        /\ reply' = [reply EXCEPT ![c] = "nil"]
        /\ UNCHANGED ret
  /\ UNCHANGED <<key, lease>>

(***************************************************************************)
(* What redis does with SET key value EX|PX expire NX (lock.go:32): an    *)
(* expire of 0 is an error reply; otherwise the key is set only when     *)
(* absent, with reply OK, and a nil reply when it exists.                 *)
(***************************************************************************)
SetNX(c) ==
  IF zeroTTL[c] THEN [key |-> key, reply |-> "ERR"]
  ELSE IF key = None THEN [key |-> c, reply |-> "OK"]
  ELSE [key |-> key, reply |-> "nil"]

(***************************************************************************)
(* redis.String(reply, nil) in tryLock (lock.go:32-40): OK is a string    *)
(* and the lock is taken; a nil reply is ErrNil and returns false, nil;  *)
(* a redis.Error reply is returned as the error.                           *)
(***************************************************************************)
TryLockResult(r) == CASE r = "OK"  -> "true"
                      [] r = "nil" -> "false"
                      [] r = "ERR" -> "err"

(***************************************************************************)
(* One turn of Instance.Retry (ral.go:141-151) with Do's callback         *)
(* (redis.go:57-70).  On the placeholder the callback returns true and    *)
(* leaves reply as it was.  Otherwise conn.Do: answered (err nil, the    *)
(* callback returns false; a redis error reply is also returned as err,  *)
(* so the callback returns true with reply set to it), failed before     *)
(* redis ran it (reply nil), or run by redis with the reply lost (reply  *)
(* nil, err set).  Retry stops                                            *)
(* when the callback returns false or i = Resource.Retry; then Do        *)
(* returns reply, nil (redis.go:91) and tryLock maps the reply.  Else    *)
(* ral.GetInstance gives the next instance: a listed one, the placeholder *)
(* after a stale count (ral.go:400), or an error that keeps curIns.       *)
(***************************************************************************)
Attempt(c) ==
  /\ pc[c] = "do"
  /\ \E outcome \in {"answered", "failed", "lost"} :
       LET r    == SetNX(c)
           run  == onClient[c] /\ outcome \in {"answered", "lost"}
           rep  == IF ~onClient[c] THEN reply[c]
                   ELSE IF outcome = "answered" THEN r.reply
                   ELSE "nil"
           stop == onClient[c] /\ outcome = "answered" /\ r.reply # "ERR"
       IN /\ key' = IF run THEN r.key ELSE key
          /\ reply' = [reply EXCEPT ![c] = rep]
          /\ IF stop \/ attempt[c] = RetryCap
               THEN /\ pc' = [pc EXCEPT ![c] = "done"]
                    /\ ret' = [ret EXCEPT ![c] = TryLockResult(rep)]
                    /\ UNCHANGED <<attempt, onClient>>
               ELSE /\ attempt' = [attempt EXCEPT ![c] = attempt[c] + 1]
                    /\ \E next \in BOOLEAN : onClient' = [onClient EXCEPT ![c] = next]
                    /\ UNCHANGED <<pc, ret>>
  /\ UNCHANGED <<lease, zeroTTL>>

\* The key's EX/PX time runs out on the server
Expire ==
  /\ key # None /\ lease < MaxExpiries
  /\ key' = None
  /\ lease' = lease + 1
  /\ UNCHANGED <<pc, zeroTTL, attempt, onClient, reply, ret>>

Init ==
  /\ key = None
  /\ lease = 0
  /\ pc = [c \in Callers |-> "idle"]
  /\ zeroTTL = [c \in Callers |-> FALSE]
  /\ attempt = [c \in Callers |-> 0]
  /\ onClient = [c \in Callers |-> TRUE]
  /\ reply = [c \in Callers |-> "nil"]
  /\ ret = [c \in Callers |-> "none"]

Next == Expire \/ \E c \in Callers : Begin(c) \/ Attempt(c)

Spec == Init /\ [][Next]_vars

(***************************************************************************)
(* Properties.                                                             *)
(***************************************************************************)
TypeOK ==
  /\ key \in Callers \cup {None}
  /\ lease \in 0..MaxExpiries
  /\ pc \in [Callers -> {"idle", "do", "done"}]
  /\ zeroTTL \in [Callers -> BOOLEAN]
  /\ attempt \in [Callers -> 0..RetryCap]
  /\ onClient \in [Callers -> BOOLEAN]
  /\ reply \in [Callers -> {"OK", "nil", "ERR"}]
  /\ ret \in [Callers -> {"none", "true", "false", "err"}]

\* tryLock's (false, nil) means "someone else holds the lock": when a call
\* returns it, the key holds another caller's value.
LockBusyMeansOtherHolder ==
  [][\A c \in Callers :
       ret'[c] = "false" /\ ret[c] # "false" => key' \notin {None, c}]_vars
=============================================================================
