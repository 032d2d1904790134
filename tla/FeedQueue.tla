-------------------------------- MODULE FeedQueue --------------------------------
(***************************************************************************)
(* Delivery of feed events: the Redis stream "stream:feed", its consumer   *)
(* group "feed_workers" and the worker pool that reads it                  *)
(* (internal/queue, internal/worker/manager.go and the start and shutdown  *)
(* of internal/transport/http/server.go).                                  *)
(*                                                                         *)
(* Stream entries are numbered in stream order: entry e is the e-th XADD.  *)
(* The group keeps the last delivered entry and, per consumer name, the    *)
(* entries delivered and not acknowledged (the pending entries list, PEL). *)
(* Redis keeps both across a crash of the process; everything a worker     *)
(* goroutine holds is lost with it.                                        *)
(*                                                                         *)
(* Redis commands are atomic. A failed command is a fault: it never        *)
(* reached Redis (ReadFailed, PendingFailed, AckFailed), or it took effect *)
(* and its reply was lost (ReadLost). What a handler does to the feed      *)
(* caches is in FeedPipeline; here a handler begins, runs and returns.     *)
(***************************************************************************)
EXTENDS Naturals, FiniteSets, FiniteSetsExt

CONSTANTS
  WorkerCount,   \* ManagerConfig.WorkerCount
  BatchSize,     \* ManagerConfig.BatchSize, the COUNT of XREADGROUP
  MaxEvents,     \* bound: entries ever published
  MaxRestarts,   \* bound: times the process stops or crashes
  MaxFaults      \* bound: Redis or handler failures

ASSUME WorkerCountAssumption == WorkerCount \in Nat \ {0}
ASSUME BatchSizeAssumption == BatchSize \in Nat \ {0}
ASSUME BoundsAssumption == MaxEvents \in Nat /\ MaxRestarts \in Nat /\ MaxFaults \in Nat

Workers == 1 .. WorkerCount

\* Mutant: one name for all, '0' + WorkerCount.
consumerNameShared(w) == 48 + WorkerCount

\* Consumer names differ only in the character after "worker-", '0' + id:
\* the name is that character's code point.
consumerNameForWorker(w) == 48 + w

Consumers == {consumerNameForWorker(w) : w \in Workers}

VARIABLES
  published,      \* length of the stream
  groupExists,    \* the consumer group was created
  lastDelivered,  \* the group's last delivered entry
  pel,            \* pending entries of each consumer
  mode,           \* process: down, up, stopping (ctx cancelled), draining (HTTP only)
  pc,             \* where each worker goroutine is
  recovering,     \* the goroutine is still inside processPending
  batch,          \* messages of the current batch not yet acknowledged
  begun,          \* history: entries each consumer started a handler on
  handled,        \* history: entries whose handler returned nil
  acked,          \* history: entries removed from a PEL by XACK
  restarts,       \* stops and crashes so far
  faults          \* failures so far

stream == <<published, groupExists, lastDelivered, pel>>
worker == <<pc, recovering, batch>>
history == <<begun, handled, acked>>
vars == <<published, groupExists, lastDelivered, pel, mode, pc, recovering, batch,
          begun, handled, acked, restarts, faults>>

Modes == {"down", "up", "stopping", "draining"}

(* off: no goroutine; pending: about to ReadPending; loop: the select of    *)
(* the main loop; reading: XREADGROUP ">" in flight; next: about to call    *)
(* HandleEvent; handling: inside HandleEvent; ack: about to XACK; refused:  *)
(* about to XACK what the handler could not start on.                       *)
Places == {"off", "pending", "loop", "reading", "next", "handling", "ack", "refused"}

EntryIds == 1 .. MaxEvents

Init ==
  /\ published = 0 /\ groupExists = FALSE /\ lastDelivered = 0
  /\ pel = [c \in Consumers |-> {}]
  /\ mode = "down"
  /\ pc = [w \in Workers |-> "off"]
  /\ recovering = [w \in Workers |-> FALSE]
  /\ batch = [w \in Workers |-> {}]
  /\ begun = [c \in Consumers |-> {}] /\ handled = {} /\ acked = {}
  /\ restarts = 0 /\ faults = 0

---------------------------------------------------------------------------------
(* Helpers *)

\* Mutant: a batch is worked through from its newest entry.
IsCurrentNewestFirst(m, w) == m \in batch[w] /\ \A n \in batch[w] : m >= n

\* The message the loop of handleMessages is at: the first of what is left.
IsCurrent(m, w) == m \in batch[w] /\ \A n \in batch[w] : m <= n

\* What XREADGROUP "0" COUNT BatchSize returns of a PEL: its oldest entries.
OldestPending(D, P) ==
  /\ D \subseteq P /\ D # {}
  /\ Cardinality(D) <= BatchSize
  /\ D = P \/ Cardinality(D) = BatchSize
  /\ \A d \in D, p \in P \ D : d < p

\* The last of the entries XREADGROUP ">" COUNT BatchSize delivers.
DeliverUpTo ==
  IF published - lastDelivered <= BatchSize THEN published ELSE lastDelivered + BatchSize

NewEntries == lastDelivered + 1 .. DeliverUpTo

\* Mutant: NOACK, nothing becomes pending.
DeliverNoAck(w) ==
  /\ pc[w] = "reading" /\ lastDelivered < published
  /\ lastDelivered' = DeliverUpTo
  /\ UNCHANGED <<published, groupExists, pel>>

\* The group's side of a delivery: Redis moves the entries into the PEL
\* before it writes the reply.
Deliver(w) ==
  /\ pc[w] = "reading" /\ lastDelivered < published
  /\ pel' = [pel EXCEPT ![consumerNameForWorker(w)] = @ \cup NewEntries]
  /\ lastDelivered' = DeliverUpTo
  /\ UNCHANGED <<published, groupExists>>

GoTo(w, place) == pc' = [pc EXCEPT ![w] = place]

\* A call fails if it is issued after Stop cancelled the manager's context,
\* and may fail at any time before.
CallFails ==
  \/ mode = "stopping" /\ faults' = faults
  \/ mode = "up" /\ faults < MaxFaults /\ faults' = faults + 1

---------------------------------------------------------------------------------
(* The HTTP side and the life of the process *)

\* RedisPublisher.Publish: XADD. HTTP requests are served until the process
\* exits, also while the workers are stopping.
Publish ==
  /\ mode # "down" /\ published < MaxEvents
  /\ published' = published + 1
  /\ UNCHANGED <<groupExists, lastDelivered, pel, mode, worker, history, restarts, faults>>

\* Mutant: the group is set to the beginning of the stream at every start.
EnsureGroupAnew == groupExists' = TRUE /\ lastDelivered' = 0

\* EnsureGroup: the group is created at "0", the beginning of the stream;
\* BUSYGROUP, the group exists, changes nothing.
EnsureGroup ==
  /\ groupExists' = TRUE
  /\ lastDelivered' = IF groupExists THEN lastDelivered ELSE 0

\* Mutant: workers go straight to new entries.
StartWithoutRecovery ==
  /\ mode = "down"
  /\ EnsureGroup
  /\ mode' = "up"
  /\ pc' = [w \in Workers |-> "loop"]
  /\ recovering' = [w \in Workers |-> FALSE]
  /\ batch' = [w \in Workers |-> {}]
  /\ UNCHANGED <<published, pel, history, restarts, faults>>

\* Manager.Start. When EnsureGroup fails Run returns and the process is
\* down as before.
Start ==
  /\ mode = "down"
  /\ EnsureGroup
  /\ mode' = "up"
  /\ pc' = [w \in Workers |-> "pending"]
  /\ recovering' = [w \in Workers |-> TRUE]
  /\ batch' = [w \in Workers |-> {}]
  /\ UNCHANGED <<published, pel, history, restarts, faults>>

\* A shutdown signal: Run calls Manager.Stop, which cancels the context.
Stop ==
  /\ mode = "up" /\ restarts < MaxRestarts
  /\ mode' = "stopping" /\ restarts' = restarts + 1
  /\ UNCHANGED <<stream, worker, history, faults>>

\* wg.Wait returns: Run goes on to shut the HTTP server down.
WorkersStopped ==
  /\ mode = "stopping" /\ \A w \in Workers : pc[w] = "off"
  /\ mode' = "draining"
  /\ UNCHANGED <<stream, worker, history, restarts, faults>>

\* server.Shutdown returned: Run returns.
Exit ==
  /\ mode = "draining"
  /\ mode' = "down"
  /\ UNCHANGED <<stream, worker, history, restarts, faults>>

\* The process dies wherever it is.
Crash ==
  /\ mode # "down" /\ restarts < MaxRestarts
  /\ mode' = "down" /\ restarts' = restarts + 1
  /\ pc' = [w \in Workers |-> "off"]
  /\ recovering' = [w \in Workers |-> FALSE]
  /\ batch' = [w \in Workers |-> {}]
  /\ UNCHANGED <<stream, history, faults>>

---------------------------------------------------------------------------------
(* A worker goroutine: runWorker *)

\* processPending: ReadPending returned a batch of this consumer's PEL.
ReadPending(w) ==
  /\ pc[w] = "pending" /\ mode = "up"
  /\ \E D \in SUBSET pel[consumerNameForWorker(w)] :
       /\ OldestPending(D, pel[consumerNameForWorker(w)])
       /\ batch' = [batch EXCEPT ![w] = D]
  /\ GoTo(w, "next")
  /\ UNCHANGED <<stream, mode, recovering, history, restarts, faults>>

\* processPending returns to runWorker: nothing is pending, or ReadPending
\* failed and what is pending is left where it is.
EndRecovery(w) ==
  /\ pc[w] = "pending"
  /\ \/ /\ mode = "up" /\ pel[consumerNameForWorker(w)] = {}
        /\ faults' = faults
     \/ CallFails
  /\ recovering' = [recovering EXCEPT ![w] = FALSE]
  /\ GoTo(w, "loop")
  /\ UNCHANGED <<stream, mode, batch, history, restarts>>

\* The select of the main loop: ctx.Done, or the next processMessages.
LoopTop(w) ==
  /\ pc[w] = "loop"
  /\ GoTo(w, IF mode = "stopping" THEN "off" ELSE "reading")
  /\ UNCHANGED <<stream, mode, recovering, batch, history, restarts, faults>>

\* Read returned new messages. A blocked XREADGROUP is not interrupted by
\* the cancelled context.
Read(w) ==
  /\ Deliver(w)
  /\ batch' = [batch EXCEPT ![w] = NewEntries]
  /\ GoTo(w, "next")
  /\ UNCHANGED <<mode, recovering, history, restarts, faults>>

\* Read returned nothing within the block time, or failed before Redis
\* delivered anything; processMessages returns to the loop either way.
ReadNothing(w) ==
  /\ pc[w] = "reading"
  /\ \/ lastDelivered = published /\ faults' = faults
     \/ CallFails
  /\ GoTo(w, "loop")
  /\ UNCHANGED <<stream, mode, recovering, batch, history, restarts>>

\* Redis delivered, the reply was lost: Read returns an error, the entries
\* are in this consumer's PEL and in nobody's batch.
ReadLost(w) ==
  /\ Deliver(w)
  /\ faults < MaxFaults /\ faults' = faults + 1
  /\ GoTo(w, "loop")
  /\ UNCHANGED <<mode, recovering, batch, history, restarts>>

\* handleMessages calls HandleEvent on the current message. With the
\* context cancelled its first query fails, so it returns without effect.
BeginHandle(w) ==
  /\ pc[w] = "next"
  /\ \/ /\ mode = "up"
        /\ \E m \in batch[w] :
             /\ IsCurrent(m, w)
             /\ begun' = [begun EXCEPT ![consumerNameForWorker(w)] = @ \cup {m}]
        /\ GoTo(w, "handling")
     \/ /\ mode = "stopping"
        /\ GoTo(w, "refused")
        /\ UNCHANGED begun
  /\ UNCHANGED <<stream, mode, recovering, batch, handled, acked, restarts, faults>>

\* HandleEvent returns nil.
HandleOk(w) ==
  /\ pc[w] = "handling"
  /\ \E m \in batch[w] : IsCurrent(m, w) /\ handled' = handled \cup {m}
  /\ GoTo(w, "ack")
  /\ UNCHANGED <<stream, mode, recovering, batch, begun, acked, restarts, faults>>

\* HandleEvent returns an error, which is logged: the message is still
\* acknowledged next.
HandleErr(w) ==
  /\ pc[w] = "handling"
  /\ CallFails
  /\ GoTo(w, "ack")
  /\ UNCHANGED <<stream, mode, recovering, batch, history, restarts>>

\* The end of one turn of handleMessages' loop: on to the next message, or
\* back to processPending's loop or to the main loop.
NextMessage(w, m) ==
  /\ batch' = [batch EXCEPT ![w] = @ \ {m}]
  /\ GoTo(w, CASE batch[w] # {m} -> "next"
               [] batch[w] = {m} /\ recovering[w] -> "pending"
               [] batch[w] = {m} /\ ~recovering[w] -> "loop")

\* Mutant: one XACK with all ids of the batch.
AckWholeBatch(w) ==
  /\ pc[w] = "ack" /\ mode = "up"
  /\ \E m \in batch[w] :
       /\ IsCurrent(m, w)
       /\ NextMessage(w, m)
       /\ pel' = [pel EXCEPT ![consumerNameForWorker(w)] = @ \ batch[w]]
       /\ acked' = acked \cup batch[w]
  /\ UNCHANGED <<published, groupExists, lastDelivered, mode, recovering,
                 begun, handled, restarts, faults>>

\* XACK removes the message from the PEL.
Ack(w) ==
  /\ pc[w] = "ack" /\ mode = "up"
  /\ \E m \in batch[w] :
       /\ IsCurrent(m, w)
       /\ NextMessage(w, m)
       /\ pel' = [pel EXCEPT ![consumerNameForWorker(w)] = @ \ {m}]
       /\ acked' = acked \cup {m}
  /\ UNCHANGED <<published, groupExists, lastDelivered, mode, recovering,
                 begun, handled, restarts, faults>>

\* XACK fails: logged, the message stays in the PEL.
AckFailed(w) ==
  /\ pc[w] \in {"ack", "refused"}
  /\ CallFails
  /\ \E m \in batch[w] : IsCurrent(m, w) /\ NextMessage(w, m)
  /\ UNCHANGED <<stream, mode, recovering, history, restarts>>

---------------------------------------------------------------------------------

WorkerStep(w) ==
  \/ ReadPending(w) \/ EndRecovery(w) \/ LoopTop(w)
  \/ Read(w) \/ ReadNothing(w) \/ ReadLost(w)
  \/ BeginHandle(w) \/ HandleOk(w) \/ HandleErr(w)
  \/ Ack(w) \/ AckFailed(w)

Next ==
  \/ Publish \/ Start \/ Stop \/ WorkersStopped \/ Exit \/ Crash
  \/ \E w \in Workers : WorkerStep(w)

Spec == Init /\ [][Next]_vars

\* Goroutines are scheduled, Redis and Postgres answer, a handler returns,
\* and a process that is down is started again. HTTP requests end: Exit waits for
\* them without a timeout. Nothing is assumed of Publish, Stop, Crash or the
\* failures, and no failure is needed for progress: MaxFaults bounds them.
Fairness ==
  /\ WF_vars(Start) /\ WF_vars(WorkersStopped) /\ WF_vars(Exit)
  /\ \A w \in Workers : WF_vars(WorkerStep(w))

FairSpec == Spec /\ Fairness

---------------------------------------------------------------------------------
(* Properties *)

\* Every variable keeps its type; the bounds hold.
TypeOK ==
  /\ published \in 0 .. MaxEvents /\ lastDelivered \in 0 .. published
  /\ groupExists \in BOOLEAN
  /\ pel \in [Consumers -> SUBSET (1 .. published)]
  /\ mode \in Modes
  /\ pc \in [Workers -> Places]
  /\ recovering \in [Workers -> BOOLEAN]
  /\ batch \in [Workers -> SUBSET (1 .. published)]
  /\ begun \in [Consumers -> SUBSET (1 .. published)]
  /\ handled \subseteq 1 .. published /\ acked \subseteq 1 .. published
  /\ restarts \in 0 .. MaxRestarts /\ faults \in 0 .. MaxFaults

\* No crash, restart, lost reply or failed call makes an event vanish: an
\* entry of the stream is still to be delivered, or pending with exactly one
\* consumer, or it was acknowledged after a handler was started on it.
EveryEventAccounted ==
  \A e \in 1 .. published :
    \/ /\ e > lastDelivered
       /\ e \notin acked /\ \A c \in Consumers : e \notin pel[c] \cup begun[c]
    \/ /\ e \notin acked
       /\ \E c \in Consumers : e \in pel[c] /\ \A d \in Consumers \ {c} : e \notin pel[d]
    \/ /\ e \in acked
       /\ \A c \in Consumers : e \notin pel[c]
       /\ \E c \in Consumers : e \in begun[c]

\* Two workers never have the same event in hand, and no worker has one in
\* hand that was acknowledged: the handlers of one event never run
\* concurrently, and never after its XACK.
OneHolder ==
  \A w \in Workers :
    /\ batch[w] \cap acked = {}
    /\ \A v \in Workers \ {w} : batch[w] \cap batch[v] = {}

\* Until a Redis call or a handler fails, crashes and restarts alone never
\* make a consumer run an older event after a newer one: what is replayed is
\* replayed before anything that follows it was started.
ReplayInOrder ==
  faults = 0 =>
    \A w \in Workers : pc[w] = "handling" =>
      \A m \in batch[w], f \in begun[consumerNameForWorker(w)] : f <= m

\* Until something fails, a worker that asks for new entries has nothing pending:
\* no entry can be left in a PEL that nobody will read before a restart.
NothingLeftBehind ==
  faults = 0 =>
    \A w \in Workers : mode = "up" /\ pc[w] = "reading" =>
      pel[consumerNameForWorker(w)] = {}

\* plan/redis_mq.md: "Stuck messages = lost work; reclaim them". Under Fairness
\* every published event is acknowledged in the end.
AllAcknowledged ==
  \A e \in EntryIds : e <= published ~> e \in acked

\* What is left of it: whatever crashes and shutdowns happen in the middle of a
\* batch or of a recovery, every event is acknowledged in the end unless a call
\* or a handler fails.
AcknowledgedUnlessFaulty ==
  \A e \in EntryIds : e <= published ~> (e \in acked \/ faults > 0)

---------------------------------------------------------------------------------
(* The promise of EventDelivery and the inductive invariant *)

\* The entry a worker's handler was started on and that it has not finished
\* with.
InHand(w) ==
  IF pc[w] \in {"handling", "ack"} THEN Min(batch[w]) ELSE 0

\* The entries a handler was started on at least once.
Attempted == {e \in 1 .. published : \E c \in Consumers : e \in begun[c]}

Delivery ==
  INSTANCE EventDelivery WITH
    appended <- published,
    hand <- [w \in Workers |-> InHand(w)],
    running <- {w \in Workers : pc[w] = "handling"},
    attempted <- Attempted,
    settled <- acked

\* The protocol implements the at-least-once contract of EventDelivery: a
\* worker's handler is started only on an event that nobody has in hand and
\* nobody acknowledged, and the worker acknowledges that event and no other,
\* after the handler returned.
DeliveryContract == Delivery!DSpec

\* What a worker holds is pending with its own consumer.
BatchIsPending ==
  \A w \in Workers : batch[w] \subseteq pel[consumerNameForWorker(w)]

\* A goroutine holds messages exactly while it works through a batch, and
\* none runs once the workers have stopped.
HoldsWhileWorking ==
  /\ \A w \in Workers : (batch[w] # {}) <=> (pc[w] \in {"next", "handling", "ack", "refused"})
  /\ mode \in {"down", "draining"} => \A w \in Workers : pc[w] = "off"
  /\ mode = "up" => \A w \in Workers : pc[w] \notin {"off", "refused"}

\* Pending, acknowledged and undelivered entries are disjoint and together
\* the whole stream; nothing was delivered before the group existed.
Partition ==
  /\ \A c \in Consumers :
       /\ \A e \in pel[c] : e <= lastDelivered /\ e \notin acked
       /\ \A e \in begun[c] : e <= lastDelivered
       /\ \A d \in Consumers \ {c} : pel[c] \cap pel[d] = {}
  /\ \A e \in acked : e <= lastDelivered /\ \E c \in Consumers : e \in begun[c]
  /\ \A e \in 1 .. lastDelivered : e \in acked \/ \E c \in Consumers : e \in pel[c]
  /\ groupExists \/ (mode = "down" /\ lastDelivered = 0)

\* A worker was started on the message that it handles or is about to
\* acknowledge.
CurrentBegun ==
  \A w \in Workers : pc[w] \in {"handling", "ack"} =>
    \E m \in batch[w] : IsCurrent(m, w) /\ m \in begun[consumerNameForWorker(w)]

\* Until something fails a consumer has begun nothing beyond what it has pending,
\* its batch is the oldest part of that and, outside recovery, all of it.
InOrder ==
  faults = 0 =>
    /\ \A c \in Consumers : \A p \in pel[c], f \in begun[c] : f <= p
    /\ mode = "up" =>
         \A w \in Workers :
           /\ \A b \in batch[w], p \in pel[consumerNameForWorker(w)] \ batch[w] : b < p
           /\ ~recovering[w] => pel[consumerNameForWorker(w)] = batch[w]
           /\ pc[w] = "pending" => recovering[w]
           /\ pc[w] \in {"loop", "reading"} => ~recovering[w]

\* The inductive invariant of the protocol: it implies EveryEventAccounted,
\* OneHolder, ReplayInOrder and NothingLeftBehind.
QueueInv ==
  TypeOK /\ BatchIsPending /\ HoldsWhileWorking /\ Partition /\ CurrentBegun /\ InOrder
=================================================================================
