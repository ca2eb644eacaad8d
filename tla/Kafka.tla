-------------------------------- MODULE Kafka --------------------------------
(***************************************************************************)
(* The kafka publisher of src/base/kafka.go and the consumer-group         *)
(* subscriber of src/command/kafka.go, on one topic partition:            *)
(*   - the publisher (KafkaPubClient) appends messages with Pub until      *)
(*     CloseProducer;                                                      *)
(*   - the consumer process calls AddSubFunction, whose goroutine calls   *)
(*     consumerGroup.Consume once; a session runs Setup (closing Ready,   *)
(*     which lets AddSubFunction return), then ConsumeClaim hands each    *)
(*     message to HandleMessage and marks it unless it returned an error.  *)
(* The broker side, as sarama provides it: the partition log, the group's *)
(* committed offset (durable), marks committed forward from time to time  *)
(* and when the session ends, a session that ends on a rebalance, and a   *)
(* new session starting at the committed offset, or at the Initial offset *)
(* when none is committed.  The consumer process may crash, losing what   *)
(* it marked and did not commit, and is restarted.                        *)
(* A message is its offset (0-based); its content is left out.            *)
(***************************************************************************)
EXTENDS Integers, FiniteSets

CONSTANTS
  MaxMsgs,        \* messages Pub may append
  MaxCrashes,     \* consumer process crashes
  MaxRebalances,  \* sessions ended by a rebalance
  FromNewest      \* opts.ConsumerFromNewest (or opts = nil)

None == -1

\* What the handler does with a message: returns nil, returns an error
\* (a json.Unmarshal error of HandleMessage is the same), or panics
Outcomes == {"ok", "err", "panic"}

VARIABLES
  logLen,       \* the partition's messages: offsets 0..logLen-1
  producer,     \* "open", or "closed" after CloseProducer
  cpc,          \* consumer goroutine: "join", "session", "returned" or "down"
  waiting,      \* AddSubFunction is blocked on <-consumerHandler.Ready
  pos,          \* offset of the next message claim.Messages() yields
  cur,          \* offset ConsumeClaim is handling, or None
  marked,       \* the session's marked offset (next to consume), or None
  committed,    \* the group's committed offset, or None
  attempted,    \* history: offsets handed to HandleMessage
  startOff,     \* history: offset the first session started at, or None
  crashes,      \* crashes so far
  rebalances    \* rebalances so far

vars == <<logLen, producer, cpc, waiting, pos, cur, marked, committed,
          attempted, startOff, crashes, rebalances>>
consumerVars == <<cpc, waiting, pos, cur, marked, committed, attempted,
                  startOff, crashes, rebalances>>

MaxOf(a, b) == IF a > b THEN a ELSE b

(***************************************************************************)
(* Publisher: InitKafkaPub (base/kafka.go:79-95) builds the producer or    *)
(* panics, so the client starts with an open producer.  Pub (104-145)     *)
(* marshals the body and calls SendMessage; a failed SendMessage leaves   *)
(* the log as it was and Pub still returns nil, so only the appending     *)
(* call is a step.                                                         *)
(***************************************************************************)
Pub ==
  /\ producer = "open"
  /\ logLen < MaxMsgs
  /\ logLen' = logLen + 1
  /\ UNCHANGED <<producer, consumerVars>>

\* CloseProducer (base/kafka.go:97-102)
CloseProducer ==
  /\ producer = "open"
  /\ producer' = "closed"
  /\ UNCHANGED <<logLen, consumerVars>>

(***************************************************************************)
(* AddSubFunction's goroutine (command/kafka.go:73-87) calls Consume       *)
(* once.  Join: the session starts and Setup (100-104) closes Ready, so   *)
(* AddSubFunction (89) returns; the claim starts at the committed offset, *)
(* or at the Initial offset set at 54-58.  ConsumeFail: Consume returns   *)
(* an error before any session; Ready stays open.  Either way, once       *)
(* Consume has returned the goroutine exits (deferred Close).             *)
(***************************************************************************)
\* Mutant: the session resumes after the committed offset, not at it
SessionStartAfterCommit == IF committed # None THEN committed + 1
                           ELSE IF FromNewest THEN logLen ELSE 0

SessionStart == IF committed # None THEN committed
                ELSE IF FromNewest THEN logLen ELSE 0

Join ==
  /\ cpc = "join"
  /\ cpc' = "session"
  /\ waiting' = FALSE
  /\ pos' = SessionStart
  /\ startOff' = IF startOff = None THEN SessionStart ELSE startOff
  /\ UNCHANGED <<logLen, producer, cur, marked, committed, attempted, crashes, rebalances>>

ConsumeFail ==
  /\ cpc = "join"
  /\ cpc' = "returned"
  /\ UNCHANGED <<logLen, producer, waiting, pos, cur, marked, committed,
                 attempted, startOff, crashes, rebalances>>

(***************************************************************************)
(* ConsumeClaim (command/kafka.go:112-126): the range over                 *)
(* claim.Messages() receives the next message; HandleMessage (128-169)    *)
(* runs the handler, whose panic the deferred recover swallows so that    *)
(* HandleMessage returns nil; on nil the message is marked (MarkMessage   *)
(* marks offset+1, and a mark never moves back), on an error the loop     *)
(* continues without marking.                                              *)
(***************************************************************************)
\* Mutant: the message marked as soon as it is received, before the handler
ReceiveMarking ==
  /\ cpc = "session"
  /\ cur = None
  /\ pos < logLen
  /\ cur' = pos
  /\ pos' = pos + 1
  /\ marked' = MaxOf(marked, pos + 1)
  /\ UNCHANGED <<logLen, producer, cpc, waiting, committed, attempted,
                 startOff, crashes, rebalances>>

Receive ==
  /\ cpc = "session"
  /\ cur = None
  /\ pos < logLen
  /\ cur' = pos
  /\ pos' = pos + 1
  /\ UNCHANGED <<logLen, producer, cpc, waiting, marked, committed, attempted,
                 startOff, crashes, rebalances>>

HandleMessage(r) ==
  /\ cpc = "session"
  /\ cur # None
  /\ attempted' = attempted \cup {cur}
  /\ marked' = IF r \in {"ok", "panic"} THEN MaxOf(marked, cur + 1) ELSE marked
  /\ cur' = None
  /\ UNCHANGED <<logLen, producer, cpc, waiting, pos, committed, startOff,
                 crashes, rebalances>>

(***************************************************************************)
(* sarama: the marked offset is committed from time to time (AutoCommit), *)
(* and when a rebalance ends the session: the claim's channel closes, the *)
(* loop returns after the message in hand, the marks are committed,       *)
(* Cleanup runs and Consume returns nil.                                  *)
(***************************************************************************)
AutoCommit ==
  /\ cpc = "session"
  /\ marked > committed
  /\ committed' = marked
  /\ UNCHANGED <<logLen, producer, cpc, waiting, pos, cur, marked, attempted,
                 startOff, crashes, rebalances>>

Rebalance ==
  /\ cpc = "session"
  /\ cur = None
  /\ rebalances < MaxRebalances
  /\ rebalances' = rebalances + 1
  /\ committed' = MaxOf(committed, marked)
  /\ cpc' = "returned"
  /\ UNCHANGED <<logLen, producer, waiting, pos, cur, marked, attempted,
                 startOff, crashes>>

(***************************************************************************)
(* The consumer process crashes: everything but the committed offset is   *)
(* lost.  Restart: the process runs again and calls AddSubFunction.       *)
(***************************************************************************)
Crash ==
  /\ cpc # "down"
  /\ crashes < MaxCrashes
  /\ crashes' = crashes + 1
  /\ cpc' = "down"
  /\ cur' = None
  /\ marked' = None
  /\ UNCHANGED <<logLen, producer, waiting, pos, committed, attempted,
                 startOff, rebalances>>

Restart ==
  /\ cpc = "down"
  /\ cpc' = "join"
  /\ waiting' = TRUE
  /\ UNCHANGED <<logLen, producer, pos, cur, marked, committed, attempted,
                 startOff, crashes, rebalances>>

Init ==
  /\ logLen = 0
  /\ producer = "open"
  /\ cpc = "join"
  /\ waiting = TRUE
  /\ pos = 0
  /\ cur = None
  /\ marked = None
  /\ committed = None
  /\ attempted = {}
  /\ startOff = None
  /\ crashes = 0
  /\ rebalances = 0

Next ==
  \/ Pub \/ CloseProducer
  \/ Join \/ ConsumeFail
  \/ Receive \/ \E r \in Outcomes : HandleMessage(r)
  \/ AutoCommit \/ Rebalance
  \/ Crash \/ Restart

(***************************************************************************)
(* The consumer's own steps are goroutines that run whenever they can,    *)
(* sarama commits while a session lasts, and a crashed process is         *)
(* restarted by its supervisor: weak fairness on each.  Pub, the broker's *)
(* rebalances and crashes are the environment and need not happen.       *)
(***************************************************************************)
Fairness ==
  /\ WF_vars(Join)
  /\ WF_vars(Receive)
  /\ WF_vars(\E r \in Outcomes : HandleMessage(r))
  /\ WF_vars(AutoCommit)
  /\ WF_vars(Restart)

Spec == Init /\ [][Next]_vars /\ Fairness

(***************************************************************************)
(* Properties.                                                             *)
(***************************************************************************)
TypeOK ==
  /\ logLen \in 0..MaxMsgs
  /\ producer \in {"open", "closed"}
  /\ cpc \in {"join", "session", "returned", "down"}
  /\ waiting \in BOOLEAN
  /\ pos \in 0..MaxMsgs
  /\ cur \in {None} \cup 0..MaxMsgs - 1
  /\ marked \in {None} \cup 0..MaxMsgs
  /\ committed \in {None} \cup 0..MaxMsgs
  /\ attempted \subseteq 0..MaxMsgs - 1
  /\ startOff \in {None} \cup 0..MaxMsgs
  /\ crashes \in 0..MaxCrashes
  /\ rebalances \in 0..MaxRebalances

\* At least once: ConsumeClaim marks a message only after HandleMessage
\* has run it, so across crashes and restarts no message from the first
\* session's start up to the committed offset was committed without being
\* handed to the handler.
CommittedWereAttempted ==
  committed # None => \A o \in startOff..committed - 1 : o \in attempted

\* Every message published on the partition is eventually handed to the
\* handler: the subscriber keeps consuming for as long as the process
\* runs, through rebalances and failed Consume calls.
EveryMessageReachesHandler ==
  \A o \in 0..MaxMsgs - 1 : (logLen > o) ~> (o \in attempted)
=============================================================================
