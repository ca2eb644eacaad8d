-------------------------------- MODULE Rmq --------------------------------
(***************************************************************************)
(* The RocketMQ service registry of src/rmq: Register/InitRmq put a new    *)
(* client object in rmqServices; StartProducer/StopProducer and           *)
(* StartConsumer/StopConsumer create and shut down the client's producer  *)
(* and push consumer under client.mu; NewMessage captures the registered  *)
(* client and messageWrapper.Send sends through its producer.  Callers    *)
(* are application goroutines, each able to call any of these.            *)
(* A producer or consumer is a handle from Handles; its life is "free"    *)
(* (not yet created), "created" (newProducer/newPushConsumer returned),   *)
(* "started" (start() returned nil) or "down" (stop() called).            *)
(***************************************************************************)
EXTENDS Naturals, FiniteSets, Sequences, SequencesExt

CONSTANTS
  Services,     \* service names
  Callers,      \* application goroutines
  Clients,      \* client objects Register may allocate
  Handles,      \* producer and consumer objects
  Reregister,   \* whether the application may Register a service twice
  StartMayFail, \* whether producer.Start()/consumer.Start() may fail
  MaxUses,      \* bound on the length of the consumers slice Use appends to
  NoObj         \* nil

Roles == {"producer", "consumer"}

ASSUME NoObj \notin Clients \cup Handles

VARIABLES
  services,   \* rmqServices: service -> client
  listening,  \* clients whose naming listener (startNamingHandler) serves
  handle,     \* client -> role -> client.producer / client.pushConsumer
  life,       \* handle -> its life
  pc,         \* caller -> "idle", "check" (holding a message) or "send"
  msgClient,  \* caller -> messageWrapper.client of the message it holds
  panicked,   \* some caller dereferenced a nil producer
  consumers,  \* the package's consumers slice (services started by Use)
  stopList,   \* caller -> the consumers slice its StopRocketMqConsume ranges over
  stopIdx,    \* caller -> index of the next service that loop stops
  crashed     \* Use panicked: the process is gone

vars == <<services, listening, handle, life, pc, msgClient, panicked,
          consumers, stopList, stopIdx, crashed>>
useVars == <<consumers, stopList, stopIdx, crashed>>

\* Client objects already allocated by a Register
Allocated == listening \cup {services[s] : s \in Services}

FreeHandles == {h \in Handles : life[h] = "free"}

(***************************************************************************)
(* Register/InitRmq (rmq.go:48-66, 69-107) under rmqServicesMu: a new     *)
(* client starts its naming listener and replaces whatever client the map *)
(* held for the service.  A configuration or listen error returns before  *)
(* anything changes and is not an action.                                 *)
(***************************************************************************)
Register(s) ==
  /\ Reregister \/ services[s] = NoObj
  /\ \E c \in Clients \ Allocated :
       /\ services' = [services EXCEPT ![s] = c]
       /\ listening' = listening \cup {c}
  /\ UNCHANGED <<handle, life, pc, msgClient, panicked, useVars>>

\* getNameserverDomain (client.go:113-118): the naming listener's address;
\* every registered client has one, as Register returns before storing a
\* client whose listener failed.
NameserverDomainOK(c) == c \in listening

(***************************************************************************)
(* The body shared by StartProducer and StartConsumer under client.mu:    *)
(* refused while the role's handle is set; otherwise newProducer /        *)
(* newPushConsumer creates the handle, it is assigned, then start() runs  *)
(* (producer.go:29-83).  When start() fails the error is returned with    *)
(* the created handle still assigned.  A failing newProducer assigns nil  *)
(* over nil and is not an action.                                         *)
(***************************************************************************)
StartWith(s, r, ok) ==
  LET c == services[s] IN
  /\ c # NoObj
  /\ handle[c][r] = NoObj
  /\ NameserverDomainOK(c)
  /\ \E h \in FreeHandles :
       /\ handle' = [handle EXCEPT ![c][r] = h]
       /\ life' = [life EXCEPT ![h] = IF ok THEN "started" ELSE "created"]

Start(s, r) ==
  /\ \/ StartWith(s, r, TRUE)
     \/ StartMayFail /\ StartWith(s, r, FALSE)
  /\ UNCHANGED <<services, listening, pc, msgClient, panicked, useVars>>

\* StartProducer (rmq.go:115-138)
StartProducer(s) == Start(s, "producer")

\* StartConsumer (rmq.go:156-211); a nil callback is refused with nothing
\* changed, so it is no action
StartConsumer(s) == Start(s, "consumer")

(***************************************************************************)
(* StopProducer/StopConsumer under client.mu: refused while nil;          *)
(* otherwise stop() (producer.go:85-87) and the handle is set to nil.     *)
(***************************************************************************)
Stop(s, r) ==
  LET c == services[s] IN
  /\ c # NoObj
  /\ handle[c][r] # NoObj
  /\ life' = [life EXCEPT ![handle[c][r]] = "down"]
  /\ handle' = [handle EXCEPT ![c][r] = NoObj]
  /\ UNCHANGED <<services, listening, pc, msgClient, panicked, useVars>>

\* StopProducer (rmq.go:141-153)
StopProducer(s) == Stop(s, "producer")

\* StopConsumer (rmq.go:214-227)
StopConsumer(s) == Stop(s, "consumer")

(***************************************************************************)
(* Use (rmq.go:242-247), called while the application starts: a consumer  *)
(* StartConsumer refuses or fails to start makes Use panic, ending the    *)
(* process; a started one is appended to the consumers slice.             *)
(***************************************************************************)
Use(g, s) ==
  /\ pc[g] = "idle"
  /\ Len(consumers) < MaxUses
  /\ \/ /\ StartWith(s, "consumer", TRUE)
        /\ consumers' = Append(consumers, s)
        /\ UNCHANGED crashed
     \/ /\ IF services[s] = NoObj THEN TRUE
           ELSE handle[services[s]]["consumer"] # NoObj
        /\ crashed' = TRUE
        /\ UNCHANGED <<handle, life, consumers>>
     \/ /\ StartMayFail /\ StartWith(s, "consumer", FALSE)
        /\ crashed' = TRUE
        /\ UNCHANGED consumers
  /\ UNCHANGED <<services, listening, pc, msgClient, panicked, stopList, stopIdx>>

(***************************************************************************)
(* StopRocketMqConsume (rmq.go:249-253): the range evaluates the consumers *)
(* slice once, then each service gets a StopConsumer of its own, under    *)
(* its client.mu, its error ignored.                                      *)
(***************************************************************************)
ShutdownBegin(g) ==
  /\ pc[g] = "idle"
  /\ pc' = [pc EXCEPT ![g] = "stop"]
  /\ stopList' = [stopList EXCEPT ![g] = consumers]
  /\ stopIdx' = [stopIdx EXCEPT ![g] = 1]
  /\ UNCHANGED <<services, listening, handle, life, msgClient, panicked, consumers, crashed>>

ShutdownStep(g) ==
  LET s == stopList[g][stopIdx[g]] IN
  /\ pc[g] = "stop"
  /\ stopIdx[g] <= Len(stopList[g])
  /\ IF services[s] # NoObj /\ handle[services[s]]["consumer"] # NoObj
       THEN /\ life' = [life EXCEPT ![handle[services[s]]["consumer"]] = "down"]
            /\ handle' = [handle EXCEPT ![services[s]]["consumer"] = NoObj]
       ELSE UNCHANGED <<handle, life>>
  /\ stopIdx' = [stopIdx EXCEPT ![g] = @ + 1]
  /\ UNCHANGED <<services, listening, pc, msgClient, panicked, consumers, stopList, crashed>>

ShutdownEnd(g) ==
  /\ pc[g] = "stop"
  /\ stopIdx[g] > Len(stopList[g])
  /\ pc' = [pc EXCEPT ![g] = "idle"]
  /\ UNCHANGED <<services, listening, handle, life, msgClient, panicked, useVars>>

(***************************************************************************)
(* NewMessage (rmq.go:230-238): the message keeps the client registered   *)
(* for the service now.                                                   *)
(***************************************************************************)
NewMessage(g, s) ==
  /\ pc[g] = "idle"
  /\ services[s] # NoObj
  /\ msgClient' = [msgClient EXCEPT ![g] = services[s]]
  /\ pc' = [pc EXCEPT ![g] = "check"]
  /\ UNCHANGED <<services, listening, handle, life, panicked, useVars>>

(***************************************************************************)
(* messageWrapper.Send (client.go:237-269).  SendCheck: producer read     *)
(* under client.mu; nil returns ErrRmqSvcInvalidOperation.  SendUse:      *)
(* m.client.producer is read AGAIN, without the lock, and SendMessage is  *)
(* called on it: nil is a nil-pointer dereference; a producer that is not *)
(* started returns an error from SendSync.                                *)
(***************************************************************************)
SendCheck(g) ==
  /\ pc[g] = "check"
  /\ pc' = [pc EXCEPT ![g] =
              IF handle[msgClient[g]]["producer"] = NoObj THEN "idle" ELSE "send"]
  /\ msgClient' = IF handle[msgClient[g]]["producer"] = NoObj
                    THEN [msgClient EXCEPT ![g] = NoObj] ELSE msgClient
  /\ UNCHANGED <<services, listening, handle, life, panicked, useVars>>

SendUse(g) ==
  /\ pc[g] = "send"
  /\ panicked' = (panicked \/ handle[msgClient[g]]["producer"] = NoObj)
  /\ pc' = [pc EXCEPT ![g] = "idle"]
  /\ msgClient' = [msgClient EXCEPT ![g] = NoObj]
  /\ UNCHANGED <<services, listening, handle, life, useVars>>

Init ==
  /\ services = [s \in Services |-> NoObj]
  /\ listening = {}
  /\ handle = [c \in Clients |-> [r \in Roles |-> NoObj]]
  /\ life = [h \in Handles |-> "free"]
  /\ pc = [g \in Callers |-> "idle"]
  /\ msgClient = [g \in Callers |-> NoObj]
  /\ panicked = FALSE
  /\ consumers = <<>>
  /\ stopList = [g \in Callers |-> <<>>]
  /\ stopIdx = [g \in Callers |-> 1]
  /\ crashed = FALSE

\* After a panic in Use the process is gone and nothing happens any more
Crashed == crashed /\ UNCHANGED vars

Next ==
  \/ /\ ~crashed
     /\ \/ \E s \in Services : \/ Register(s)
                               \/ StartProducer(s) \/ StartConsumer(s)
                               \/ StopProducer(s) \/ StopConsumer(s)
        \/ \E g \in Callers : \/ \E s \in Services : NewMessage(g, s) \/ Use(g, s)
                              \/ SendCheck(g)
                              \/ SendUse(g)
                              \/ ShutdownBegin(g) \/ ShutdownStep(g) \/ ShutdownEnd(g)
  \/ Crashed

Spec == Init /\ [][Next]_vars

(***************************************************************************)
(* Properties.                                                             *)
(***************************************************************************)
TypeOK ==
  /\ services \in [Services -> Clients \cup {NoObj}]
  /\ listening \subseteq Clients
  /\ handle \in [Clients -> [Roles -> Handles \cup {NoObj}]]
  /\ life \in [Handles -> {"free", "created", "started", "down"}]
  /\ pc \in [Callers -> {"idle", "check", "send", "stop"}]
  /\ consumers \in Seq(Services) /\ Len(consumers) <= MaxUses
  /\ stopList \in [Callers -> Seq(Services)]
  /\ stopIdx \in [Callers -> 1..MaxUses + 1]
  /\ crashed \in BOOLEAN
  /\ msgClient \in [Callers -> Clients \cup {NoObj}]
  /\ \A g \in Callers : pc[g] \in {"check", "send"} => msgClient[g] \in Clients

\* Send returns ErrRmqSvcInvalidOperation when no producer is started; it
\* never dereferences a nil producer, however StopProducer interleaves.
SendNeverPanics == ~panicked
=============================================================================
