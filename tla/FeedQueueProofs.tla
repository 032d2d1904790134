----------------------------- MODULE FeedQueueProofs -----------------------------
(***************************************************************************)
(* Proofs about FeedQueue for every number of workers, batch size and      *)
(* bound.                                                                  *)
(***************************************************************************)
EXTENDS FeedQueue, TLAPS

\* Workers have different consumer names: the character code of the digit is
\* injective. (One name each is what makes pending lists disjoint.)
LEMMA NameFacts ==
  /\ \A w \in Workers : consumerNameForWorker(w) \in Consumers
  /\ \A v, w \in Workers : consumerNameForWorker(v) = consumerNameForWorker(w) => v = w
  /\ \A c \in Consumers : \E w \in Workers : c = consumerNameForWorker(w)
BY WorkerCountAssumption DEF Workers, Consumers, consumerNameForWorker

USE WorkerCountAssumption, BatchSizeAssumption, BoundsAssumption

\* The invariant holds when nothing has been published and nothing runs.
LEMMA InitInv == Init => QueueInv
<1> SUFFICES ASSUME Init PROVE QueueInv
  OBVIOUS
<1> USE DEF Init
<1>1. TypeOK
  <2>1. published \in 0 .. MaxEvents /\ lastDelivered \in 0 .. published
    BY BoundsAssumption
  <2>2. restarts \in 0 .. MaxRestarts /\ faults \in 0 .. MaxFaults
    BY BoundsAssumption
  <2> QED BY <2>1, <2>2 DEF TypeOK, Modes, Places
<1>2. BatchIsPending /\ HoldsWhileWorking /\ CurrentBegun
  BY NameFacts DEF BatchIsPending, HoldsWhileWorking, CurrentBegun
<1>3. Partition /\ InOrder
  BY NameFacts DEF Partition, InOrder
<1> QED BY <1>1, <1>2, <1>3 DEF QueueInv

\* A delivery takes the next entries of the stream, and at least one.
LEMMA DeliverFacts ==
  ASSUME published \in Nat, lastDelivered \in Nat, lastDelivered < published
  PROVE  /\ DeliverUpTo \in Nat /\ lastDelivered < DeliverUpTo /\ DeliverUpTo <= published
         /\ DeliverUpTo \in NewEntries
         /\ NewEntries \subseteq 1 .. published
         /\ \A e \in Nat : e \in NewEntries <=> lastDelivered < e /\ e <= DeliverUpTo
BY BatchSizeAssumption DEF DeliverUpTo, NewEntries

\* Failures are counted and never forgotten.
LEMMA FaultsCounted == TypeOK /\ [Next]_vars /\ faults' = 0 => faults = 0
<1> SUFFICES ASSUME TypeOK, [Next]_vars, faults' = 0 PROVE faults = 0
  OBVIOUS
<1>1. CASE \/ Publish \/ Start \/ Stop \/ WorkersStopped \/ Exit \/ Crash
  BY <1>1 DEF Publish, Start, Stop, WorkersStopped, Exit, Crash
<1>2. ASSUME NEW w \in Workers,
             \/ ReadPending(w) \/ LoopTop(w) \/ Read(w) \/ BeginHandle(w)
             \/ HandleOk(w) \/ Ack(w)
      PROVE  faults = 0
  BY <1>2 DEF ReadPending, LoopTop, Read, BeginHandle, HandleOk, Ack
<1>3. ASSUME NEW w \in Workers,
             \/ EndRecovery(w) \/ ReadNothing(w) \/ ReadLost(w) \/ HandleErr(w)
             \/ AckFailed(w)
      PROVE  faults = 0
  BY <1>3 DEF EndRecovery, ReadNothing, ReadLost, HandleErr, AckFailed, CallFails, TypeOK
<1>4. CASE UNCHANGED vars
  BY <1>4 DEF vars
<1> QED BY <1>1, <1>2, <1>3, <1>4 DEF Next, WorkerStep

\* Every step keeps the invariant: one step of the proof per action, and one
\* below it per conjunct the action can disturb.
LEMMA NextInv == QueueInv /\ [Next]_vars => QueueInv'
<1> SUFFICES ASSUME QueueInv, [Next]_vars PROVE QueueInv'
  OBVIOUS
<1>0. faults' = 0 => faults = 0
  BY FaultsCounted DEF QueueInv
<1> USE NameFacts
<1> USE DEF QueueInv
<1>1. ASSUME Publish PROVE QueueInv'
  <2>1. TypeOK'
    BY <1>1 DEF Publish, TypeOK, worker, history
  <2>2. BatchIsPending'
    BY <1>1 DEF Publish, BatchIsPending, worker
  <2>3. HoldsWhileWorking'
    BY <1>1 DEF Publish, HoldsWhileWorking, worker
  <2>4. Partition'
    BY <1>1 DEF Publish, Partition, history
  <2>5. CurrentBegun'
    BY <1>1 DEF Publish, CurrentBegun, worker, history, IsCurrent
  <2>6. InOrder'
    BY <1>0, <1>1 DEF Publish, InOrder, worker, history
  <2> QED BY <2>1, <2>2, <2>3, <2>4, <2>5, <2>6
<1>2. ASSUME Start PROVE QueueInv'
  <2>1. TypeOK'
    BY <1>2 DEF Start, TypeOK, EnsureGroup, history, Modes, Places
  <2>2. BatchIsPending'
    BY <1>2 DEF Start, BatchIsPending
  <2>3. HoldsWhileWorking'
    BY <1>2 DEF Start, HoldsWhileWorking
  <2>4. Partition'
    BY <1>2 DEF Start, Partition, EnsureGroup, history
  <2>5. CurrentBegun'
    BY <1>2 DEF Start, CurrentBegun
  <2>6. InOrder'
    BY <1>0, <1>2 DEF Start, InOrder, history
  <2> QED BY <2>1, <2>2, <2>3, <2>4, <2>5, <2>6
<1>3. ASSUME Stop PROVE QueueInv'
  <2>1. TypeOK'
    BY <1>3 DEF Stop, TypeOK, stream, worker, history, Modes
  <2>2. BatchIsPending'
    BY <1>3 DEF Stop, BatchIsPending, stream, worker
  <2>3. HoldsWhileWorking'
    BY <1>3 DEF Stop, HoldsWhileWorking, worker
  <2>4. Partition'
    BY <1>3 DEF Stop, Partition, stream, history
  <2>5. CurrentBegun'
    BY <1>3 DEF Stop, CurrentBegun, worker, history, IsCurrent
  <2>6. InOrder'
    BY <1>0, <1>3 DEF Stop, InOrder, stream, history
  <2> QED BY <2>1, <2>2, <2>3, <2>4, <2>5, <2>6
<1>4. ASSUME WorkersStopped PROVE QueueInv'
  <2>1. TypeOK'
    BY <1>4 DEF WorkersStopped, TypeOK, stream, worker, history, Modes
  <2>2. BatchIsPending'
    BY <1>4 DEF WorkersStopped, BatchIsPending, worker, HoldsWhileWorking
  <2>3. HoldsWhileWorking'
    BY <1>4 DEF WorkersStopped, HoldsWhileWorking, worker
  <2>4. Partition'
    BY <1>4 DEF WorkersStopped, Partition, stream, history
  <2>5. CurrentBegun'
    BY <1>4 DEF WorkersStopped, CurrentBegun, worker
  <2>6. InOrder'
    BY <1>0, <1>4 DEF WorkersStopped, InOrder, stream, history
  <2> QED BY <2>1, <2>2, <2>3, <2>4, <2>5, <2>6
<1>5. ASSUME Exit PROVE QueueInv'
  <2>1. TypeOK'
    BY <1>5 DEF Exit, TypeOK, stream, worker, history, Modes
  <2>2. BatchIsPending'
    BY <1>5 DEF Exit, BatchIsPending, worker, HoldsWhileWorking
  <2>3. HoldsWhileWorking'
    BY <1>5 DEF Exit, HoldsWhileWorking, worker
  <2>4. Partition'
    BY <1>5 DEF Exit, Partition, stream, history
  <2>5. CurrentBegun'
    BY <1>5 DEF Exit, CurrentBegun, worker, HoldsWhileWorking
  <2>6. InOrder'
    BY <1>0, <1>5 DEF Exit, InOrder, stream, history
  <2> QED BY <2>1, <2>2, <2>3, <2>4, <2>5, <2>6
<1>6. ASSUME Crash PROVE QueueInv'
  <2>1. TypeOK'
    BY <1>6 DEF Crash, TypeOK, stream, history, Modes, Places
  <2>2. BatchIsPending'
    BY <1>6 DEF Crash, BatchIsPending
  <2>3. HoldsWhileWorking'
    BY <1>6 DEF Crash, HoldsWhileWorking
  <2>4. Partition'
    BY <1>6 DEF Crash, Partition, stream, history
  <2>5. CurrentBegun'
    BY <1>6 DEF Crash, CurrentBegun
  <2>6. InOrder'
    BY <1>0, <1>6 DEF Crash, InOrder, stream, history
  <2> QED BY <2>1, <2>2, <2>3, <2>4, <2>5, <2>6
<1>7. ASSUME NEW w \in Workers, ReadPending(w) PROVE QueueInv'
  <2>1. TypeOK'
    BY <1>7 DEF ReadPending, TypeOK, GoTo, stream, history, Places
  <2>2. BatchIsPending'
    BY <1>7 DEF ReadPending, BatchIsPending, stream
  <2>3. HoldsWhileWorking'
    BY <1>7 DEF ReadPending, HoldsWhileWorking, OldestPending, GoTo, TypeOK
  <2>4. Partition'
    BY <1>7 DEF ReadPending, Partition, stream, history
  <2>5. CurrentBegun'
    BY <1>7 DEF ReadPending, CurrentBegun, GoTo, history, IsCurrent
  <2>6. InOrder'
    BY <1>0, <1>7 DEF ReadPending, InOrder, OldestPending, GoTo, stream, history
  <2> QED BY <2>1, <2>2, <2>3, <2>4, <2>5, <2>6
<1>8. ASSUME NEW w \in Workers, EndRecovery(w) PROVE QueueInv'
  <2>1. TypeOK'
    BY <1>8 DEF EndRecovery, TypeOK, CallFails, GoTo, stream, history, Places
  <2>2. BatchIsPending'
    BY <1>8 DEF EndRecovery, BatchIsPending, stream
  <2>3. HoldsWhileWorking'
    BY <1>8 DEF EndRecovery, HoldsWhileWorking, GoTo
  <2>4. Partition'
    BY <1>8 DEF EndRecovery, Partition, stream, history
  <2>5. CurrentBegun'
    BY <1>8 DEF EndRecovery, CurrentBegun, GoTo, history, IsCurrent
  <2>6. InOrder'
    <3>1. mode' = mode /\ (faults' = 0 /\ mode = "up" => pel[consumerNameForWorker(w)] = {})
      BY <1>0, <1>8 DEF EndRecovery, CallFails, TypeOK
    <3>2. pc' = [pc EXCEPT ![w] = "loop"] /\ recovering' = [recovering EXCEPT ![w] = FALSE]
      BY <1>0, <1>8 DEF EndRecovery, GoTo
    <3>3. UNCHANGED <<pel, batch, begun>>
      BY <1>0, <1>8 DEF EndRecovery, stream, history
    <3> QED BY <1>0, <3>1, <3>2, <3>3 DEF InOrder, BatchIsPending, TypeOK
  <2> QED BY <2>1, <2>2, <2>3, <2>4, <2>5, <2>6
<1>9. ASSUME NEW w \in Workers, LoopTop(w) PROVE QueueInv'
  <2>1. TypeOK'
    BY <1>9 DEF LoopTop, TypeOK, GoTo, stream, history, Places
  <2>2. BatchIsPending'
    BY <1>9 DEF LoopTop, BatchIsPending, stream
  <2>3. HoldsWhileWorking'
    BY <1>9 DEF LoopTop, HoldsWhileWorking, GoTo
  <2>4. Partition'
    BY <1>9 DEF LoopTop, Partition, stream, history
  <2>5. CurrentBegun'
    BY <1>9 DEF LoopTop, CurrentBegun, GoTo, history, IsCurrent
  <2>6. InOrder'
    BY <1>0, <1>9 DEF LoopTop, InOrder, GoTo, stream, history
  <2> QED BY <2>1, <2>2, <2>3, <2>4, <2>5, <2>6
<1>10. ASSUME NEW w \in Workers, Read(w) PROVE QueueInv'
  <2>a. /\ pc[w] = "reading" /\ lastDelivered < published /\ UNCHANGED <<published, mode, recovering, begun, acked, groupExists>>
        /\ pel' = [pel EXCEPT ![consumerNameForWorker(w)] = @ \cup NewEntries]
        /\ lastDelivered' = DeliverUpTo
    BY <1>10 DEF Read, Deliver, history
  <2>b. /\ DeliverUpTo \in Nat /\ lastDelivered < DeliverUpTo /\ DeliverUpTo <= published
        /\ DeliverUpTo \in NewEntries
        /\ NewEntries \subseteq 1 .. published
        /\ \A e \in Nat : e \in NewEntries <=> lastDelivered < e /\ e <= DeliverUpTo
    BY <2>a, DeliverFacts DEF TypeOK
  <2>c. /\ batch' = [batch EXCEPT ![w] = NewEntries]
        /\ pc' = [pc EXCEPT ![w] = "next"]
    BY <1>10 DEF Read, GoTo
  <2>1. TypeOK'
    BY <1>10 DEF Read, TypeOK, Deliver, DeliverUpTo, NewEntries, GoTo, history, Places
  <2>2. BatchIsPending'
    BY <1>10 DEF Read, BatchIsPending, Deliver, TypeOK
  <2>3. HoldsWhileWorking'
    BY <2>a, <2>b, <2>c DEF HoldsWhileWorking, TypeOK
  <2>4. Partition'
    <3>1. \A c \in Consumers :
            /\ \A e \in pel'[c] : e <= lastDelivered' /\ e \notin acked'
            /\ \A e \in begun'[c] : e <= lastDelivered'
      BY <2>a, <2>b DEF Partition, TypeOK
    <3>2. \A c \in Consumers : \A d \in Consumers \ {c} : pel'[c] \cap pel'[d] = {}
      BY <2>a, <2>b DEF Partition, TypeOK
    <3>3. \A e \in acked' : e <= lastDelivered' /\ \E c \in Consumers : e \in begun'[c]
      BY <2>a, <2>b DEF Partition, TypeOK
    <3>4. \A e \in 1 .. lastDelivered' : e \in acked' \/ \E c \in Consumers : e \in pel'[c]
      BY <2>a, <2>b DEF Partition, TypeOK
    <3>5. groupExists'
      BY <2>a DEF Partition, HoldsWhileWorking
    <3> QED BY <3>1, <3>2, <3>3, <3>4, <3>5 DEF Partition
  <2>5. CurrentBegun'
    BY <1>10 DEF Read, CurrentBegun, GoTo, history, TypeOK, IsCurrent
  <2>6. InOrder'
    <3>1. ASSUME faults' = 0 PROVE \A c \in Consumers : \A p \in pel'[c], f \in begun'[c] : f <= p
      BY <1>0, <2>a, <2>b, <3>1 DEF InOrder, Partition, TypeOK
    <3>2. ASSUME faults' = 0, mode = "up" PROVE pel[consumerNameForWorker(w)] = {} /\ ~recovering[w]
      BY <1>0, <2>a, <3>2 DEF InOrder, HoldsWhileWorking
    <3>3. ASSUME faults' = 0, mode = "up", NEW v \in Workers
          PROVE /\ \A b \in batch'[v], p \in pel'[consumerNameForWorker(v)] \ batch'[v] : b < p
                /\ ~recovering'[v] => pel'[consumerNameForWorker(v)] = batch'[v]
                /\ pc'[v] = "pending" => recovering'[v]
                /\ pc'[v] \in {"loop", "reading"} => ~recovering'[v]
      <4>1. CASE v = w
        BY <1>0, <2>a, <2>c, <3>2, <3>3, <4>1 DEF TypeOK
      <4>2. CASE v # w
        BY <1>0, <2>a, <2>c, <3>3, <4>2 DEF InOrder
      <4> QED BY <1>0, <4>1, <4>2
    <3> QED BY <1>0, <2>a, <3>1, <3>3 DEF InOrder
  <2> QED BY <2>1, <2>2, <2>3, <2>4, <2>5, <2>6
<1>11. ASSUME NEW w \in Workers, ReadNothing(w) PROVE QueueInv'
  <2>1. TypeOK'
    BY <1>11 DEF ReadNothing, TypeOK, CallFails, GoTo, stream, history, Places
  <2>2. BatchIsPending'
    BY <1>11 DEF ReadNothing, BatchIsPending, stream
  <2>3. HoldsWhileWorking'
    BY <1>11 DEF ReadNothing, HoldsWhileWorking, GoTo
  <2>4. Partition'
    BY <1>11 DEF ReadNothing, Partition, stream, history
  <2>5. CurrentBegun'
    BY <1>11 DEF ReadNothing, CurrentBegun, GoTo, history, IsCurrent
  <2>6. InOrder'
    BY <1>0, <1>11 DEF ReadNothing, InOrder, GoTo, stream, history
  <2> QED BY <2>1, <2>2, <2>3, <2>4, <2>5, <2>6
<1>12. ASSUME NEW w \in Workers, ReadLost(w) PROVE QueueInv'
  <2>a. /\ pc[w] = "reading" /\ lastDelivered < published /\ UNCHANGED <<published, mode, recovering, begun, acked, groupExists>>
        /\ pel' = [pel EXCEPT ![consumerNameForWorker(w)] = @ \cup NewEntries]
        /\ lastDelivered' = DeliverUpTo
    BY <1>12 DEF ReadLost, Deliver, history
  <2>b. /\ DeliverUpTo \in Nat /\ lastDelivered < DeliverUpTo /\ DeliverUpTo <= published
        /\ DeliverUpTo \in NewEntries
        /\ NewEntries \subseteq 1 .. published
        /\ \A e \in Nat : e \in NewEntries <=> lastDelivered < e /\ e <= DeliverUpTo
    BY <2>a, DeliverFacts DEF TypeOK
  <2>c. /\ batch' = batch
        /\ pc' = [pc EXCEPT ![w] = "loop"]
    BY <1>12 DEF ReadLost, GoTo
  <2>1. TypeOK'
    BY <1>12 DEF ReadLost, TypeOK, Deliver, DeliverUpTo, NewEntries, GoTo, history, Places
  <2>2. BatchIsPending'
    BY <1>12 DEF ReadLost, BatchIsPending, Deliver
  <2>3. HoldsWhileWorking'
    BY <1>12 DEF ReadLost, HoldsWhileWorking, Deliver, GoTo
  <2>4. Partition'
    <3>1. \A c \in Consumers :
            /\ \A e \in pel'[c] : e <= lastDelivered' /\ e \notin acked'
            /\ \A e \in begun'[c] : e <= lastDelivered'
      BY <2>a, <2>b DEF Partition, TypeOK
    <3>2. \A c \in Consumers : \A d \in Consumers \ {c} : pel'[c] \cap pel'[d] = {}
      BY <2>a, <2>b DEF Partition, TypeOK
    <3>3. \A e \in acked' : e <= lastDelivered' /\ \E c \in Consumers : e \in begun'[c]
      BY <2>a, <2>b DEF Partition, TypeOK
    <3>4. \A e \in 1 .. lastDelivered' : e \in acked' \/ \E c \in Consumers : e \in pel'[c]
      BY <2>a, <2>b DEF Partition, TypeOK
    <3>5. groupExists'
      BY <2>a DEF Partition, HoldsWhileWorking
    <3> QED BY <3>1, <3>2, <3>3, <3>4, <3>5 DEF Partition
  <2>5. CurrentBegun'
    BY <1>12 DEF ReadLost, CurrentBegun, GoTo, history, IsCurrent
  <2>6. InOrder'
    BY <1>0, <1>12 DEF ReadLost, InOrder, TypeOK
  <2> QED BY <2>1, <2>2, <2>3, <2>4, <2>5, <2>6
<1>13. ASSUME NEW w \in Workers, BeginHandle(w) PROVE QueueInv'
  <2>1. TypeOK'
    BY <1>13 DEF BeginHandle, TypeOK, GoTo, stream, Places
  <2>2. BatchIsPending'
    BY <1>13 DEF BeginHandle, BatchIsPending, stream
  <2>3. HoldsWhileWorking'
    BY <1>13 DEF BeginHandle, HoldsWhileWorking, GoTo, TypeOK
  <2>4. Partition'
    BY <1>13 DEF BeginHandle, Partition, stream, TypeOK, BatchIsPending
  <2>5. CurrentBegun'
    BY <1>13 DEF BeginHandle, CurrentBegun, GoTo, TypeOK, IsCurrent
  <2>6. InOrder'
    BY <1>0, <1>13 DEF BeginHandle, InOrder, GoTo, stream, TypeOK, IsCurrent
  <2> QED BY <2>1, <2>2, <2>3, <2>4, <2>5, <2>6
<1>14. ASSUME NEW w \in Workers, HandleOk(w) PROVE QueueInv'
  <2>1. TypeOK'
    BY <1>14 DEF HandleOk, TypeOK, GoTo, stream, Places
  <2>2. BatchIsPending'
    BY <1>14 DEF HandleOk, BatchIsPending, stream
  <2>3. HoldsWhileWorking'
    BY <1>14 DEF HandleOk, HoldsWhileWorking, GoTo, TypeOK
  <2>4. Partition'
    BY <1>14 DEF HandleOk, Partition, stream
  <2>5. CurrentBegun'
    BY <1>14 DEF HandleOk, CurrentBegun, GoTo, IsCurrent
  <2>6. InOrder'
    BY <1>0, <1>14 DEF HandleOk, InOrder, GoTo, stream
  <2> QED BY <2>1, <2>2, <2>3, <2>4, <2>5, <2>6
<1>15. ASSUME NEW w \in Workers, HandleErr(w) PROVE QueueInv'
  <2>1. TypeOK'
    BY <1>15 DEF HandleErr, TypeOK, CallFails, GoTo, stream, history, Places
  <2>2. BatchIsPending'
    BY <1>15 DEF HandleErr, BatchIsPending, stream
  <2>3. HoldsWhileWorking'
    BY <1>15 DEF HandleErr, HoldsWhileWorking, GoTo, TypeOK
  <2>4. Partition'
    BY <1>15 DEF HandleErr, Partition, stream, history
  <2>5. CurrentBegun'
    BY <1>15 DEF HandleErr, CurrentBegun, GoTo, history, IsCurrent
  <2>6. InOrder'
    BY <1>0, <1>15 DEF HandleErr, InOrder, GoTo, stream, history
  <2> QED BY <2>1, <2>2, <2>3, <2>4, <2>5, <2>6
<1>16. ASSUME NEW w \in Workers, Ack(w) PROVE QueueInv'
  <2>1. TypeOK'
    BY <1>16 DEF Ack, TypeOK, NextMessage, GoTo, Places
  <2>2. BatchIsPending'
    BY <1>16 DEF Ack, BatchIsPending, NextMessage, TypeOK
  <2>3. HoldsWhileWorking'
    BY <1>16 DEF Ack, HoldsWhileWorking, NextMessage, GoTo, TypeOK
  <2>4. Partition'
    <3>1. PICK m \in batch[w] :
            /\ IsCurrent(m, w)
            /\ pel' = [pel EXCEPT ![consumerNameForWorker(w)] = @ \ {m}]
            /\ acked' = acked \cup {m}
      BY <1>16 DEF Ack
    <3>2. m \in begun[consumerNameForWorker(w)]
      BY <1>16, <3>1 DEF Ack, CurrentBegun, IsCurrent, TypeOK
    <3>3. m \in pel[consumerNameForWorker(w)] /\ m <= lastDelivered
      BY DEF BatchIsPending, Partition
    <3>4. UNCHANGED <<groupExists, lastDelivered, mode, begun>>
      BY <1>16 DEF Ack
    <3> QED BY <3>1, <3>2, <3>3, <3>4 DEF Partition, TypeOK
  <2>5. CurrentBegun'
    BY <1>16 DEF Ack, CurrentBegun, NextMessage, GoTo, TypeOK, IsCurrent
  <2>6. InOrder'
    <3>1. PICK m \in batch[w] :
            /\ IsCurrent(m, w) /\ NextMessage(w, m) /\ mode = "up"
            /\ pel' = [pel EXCEPT ![consumerNameForWorker(w)] = @ \ {m}]
            /\ UNCHANGED <<mode, recovering, begun>>
      BY <1>0, <1>16 DEF Ack
    <3>2. ASSUME faults' = 0 PROVE \A c \in Consumers : \A p \in pel'[c], f \in begun'[c] : f <= p
      BY <1>0, <3>1, <3>2 DEF InOrder
    <3>3. ASSUME faults' = 0, NEW v \in Workers
          PROVE /\ \A b \in batch'[v], p \in pel'[consumerNameForWorker(v)] \ batch'[v] : b < p
                /\ ~recovering'[v] => pel'[consumerNameForWorker(v)] = batch'[v]
                /\ pc'[v] = "pending" => recovering'[v]
                /\ pc'[v] \in {"loop", "reading"} => ~recovering'[v]
      <4>1. CASE v = w
        BY <1>0, <3>1, <3>3, <4>1 DEF InOrder, TypeOK, NextMessage, GoTo
      <4>2. CASE v # w
        BY <1>0, <3>1, <3>3, <4>2 DEF InOrder, NextMessage, GoTo
      <4> QED BY <1>0, <4>1, <4>2
    <3> QED BY <1>0, <3>2, <3>3 DEF InOrder
  <2> QED BY <2>1, <2>2, <2>3, <2>4, <2>5, <2>6
<1>17. ASSUME NEW w \in Workers, AckFailed(w) PROVE QueueInv'
  <2>1. TypeOK'
    BY <1>17 DEF AckFailed, TypeOK, NextMessage, CallFails, GoTo, stream, history, Places
  <2>2. BatchIsPending'
    BY <1>17 DEF AckFailed, BatchIsPending, NextMessage, stream
  <2>3. HoldsWhileWorking'
    BY <1>17 DEF AckFailed, HoldsWhileWorking, NextMessage, GoTo, TypeOK
  <2>4. Partition'
    BY <1>17 DEF AckFailed, Partition, stream, history
  <2>5. CurrentBegun'
    BY <1>17 DEF AckFailed, CurrentBegun, NextMessage, GoTo, history, TypeOK, IsCurrent
  <2>6. InOrder'
    BY <1>0, <1>17 DEF AckFailed, InOrder, CallFails, stream, history, TypeOK
  <2> QED BY <2>1, <2>2, <2>3, <2>4, <2>5, <2>6
<1>18. ASSUME UNCHANGED vars PROVE QueueInv'
  BY <1>18 DEF vars, TypeOK, BatchIsPending, HoldsWhileWorking, Partition,
    CurrentBegun, InOrder, IsCurrent
<1> QED BY <1>1, <1>2, <1>3, <1>4, <1>5, <1>6, <1>7, <1>8, <1>9, <1>10, <1>11, <1>12, <1>13, <1>14, <1>15, <1>16, <1>17, <1>18 DEF Next, WorkerStep

---------------------------------------------------------------------------------

\* Type correctness and the whole inductive invariant of the delivery protocol
\* hold in every reachable state.
THEOREM QueueInvariant == Spec => []QueueInv
<1>1. QueueInv /\ [Next]_vars => QueueInv'
  BY NextInv
<1> QED BY InitInv, <1>1, PTL DEF Spec

\* Every variable keeps its type.
THEOREM TypeCorrect == Spec => []TypeOK
BY QueueInvariant, PTL DEF QueueInv

\* Whatever crashes, restarts and calls fail, every entry of the stream is
\* undelivered, pending with exactly one consumer, or acknowledged after a
\* handler was started on it.
THEOREM Accounting == Spec => []EveryEventAccounted
<1>1. ASSUME QueueInv PROVE EveryEventAccounted
  <2> USE DEF QueueInv
  <2> SUFFICES ASSUME NEW e \in 1 .. published
               PROVE  \/ /\ e > lastDelivered
                         /\ e \notin acked /\ \A c \in Consumers : e \notin pel[c] \cup begun[c]
                      \/ /\ e \notin acked
                         /\ \E c \in Consumers :
                              e \in pel[c] /\ \A d \in Consumers \ {c} : e \notin pel[d]
                      \/ /\ e \in acked
                         /\ \A c \in Consumers : e \notin pel[c]
                         /\ \E c \in Consumers : e \in begun[c]
    BY DEF EveryEventAccounted
  <2>1. CASE e > lastDelivered
    BY <1>1, <2>1 DEF Partition
  <2>2. CASE e \in acked
    BY <1>1, <2>2 DEF Partition
  <2>3. CASE e <= lastDelivered /\ e \notin acked
    <3>1. PICK c \in Consumers : e \in pel[c]
      BY <1>1, <2>3 DEF Partition
    <3> QED BY <1>1, <2>3, <3>1 DEF Partition
  <2> QED BY <1>1, <2>1, <2>2, <2>3 DEF TypeOK
<1> QED BY QueueInvariant, <1>1, PTL

\* Batches are pending lists' entries and pending lists are disjoint, so no two
\* workers hold one event.
LEMMA OneHolderLemma == QueueInv => OneHolder
BY NameFacts DEF QueueInv, OneHolder, BatchIsPending, Partition

\* No two workers hold one event, and none holds an acknowledged one.
THEOREM Exclusion == Spec => []OneHolder
BY QueueInvariant, OneHolderLemma, PTL

\* Until something fails, a replay after a crash or a shutdown never starts a
\* handler on an event older than one its consumer has begun.
THEOREM ReplayOrder == Spec => []ReplayInOrder
<1>1. ASSUME QueueInv PROVE ReplayInOrder
  BY <1>1, NameFacts DEF QueueInv, ReplayInOrder, InOrder, BatchIsPending
<1> QED BY QueueInvariant, <1>1, PTL

\* Until something fails, a worker waiting for new entries has none pending.
THEOREM NoneLeftBehind == Spec => []NothingLeftBehind
<1>1. ASSUME QueueInv PROVE NothingLeftBehind
  BY <1>1 DEF QueueInv, NothingLeftBehind, InOrder, HoldsWhileWorking
<1> QED BY QueueInvariant, <1>1, PTL

---------------------------------------------------------------------------------
(* The protocol implements EventDelivery *)

\* The message the loop is at is the least of what is left of the batch.
LEMMA CurrentIsMin ==
  ASSUME TypeOK, NEW w \in Workers, NEW m \in batch[w], IsCurrent(m, w)
  PROVE  Min(batch[w]) = m
<1>1. \A k \in batch[w] : k \in Nat
  BY DEF TypeOK
<1>2. \A k \in batch[w] : (\A n \in batch[w] : k <= n) => k = m
  BY <1>1 DEF IsCurrent
<1> QED BY <1>2 DEF Min, IsCurrent

\* What a worker has in hand was begun, is in its batch, not acknowledged, and
\* in no other worker's hand.
LEMMA HandFacts ==
  ASSUME QueueInv, NEW w \in Workers, InHand(w) # 0
  PROVE  /\ pc[w] \in {"handling", "ack"}
         /\ InHand(w) \in batch[w] /\ IsCurrent(InHand(w), w)
         /\ InHand(w) \in begun[consumerNameForWorker(w)]
<1>1. pc[w] \in {"handling", "ack"} /\ InHand(w) = Min(batch[w])
  BY DEF InHand
<1>2. PICK m \in batch[w] : IsCurrent(m, w) /\ m \in begun[consumerNameForWorker(w)]
  BY <1>1 DEF QueueInv, CurrentBegun
<1> QED BY <1>1, <1>2, CurrentIsMin DEF QueueInv

\* A worker in one of those two places has an event in hand.
LEMMA HandIs ==
  ASSUME QueueInv, NEW w \in Workers, pc[w] \in {"handling", "ack"},
         NEW m \in batch[w], IsCurrent(m, w)
  PROVE  InHand(w) = m /\ m # 0 /\ m \in begun[consumerNameForWorker(w)]
<1>1. PICK n \in batch[w] : IsCurrent(n, w) /\ n \in begun[consumerNameForWorker(w)]
  BY DEF QueueInv, CurrentBegun
<1>2. m = n
  BY <1>1, CurrentIsMin DEF QueueInv
<1> QED BY <1>1, <1>2, CurrentIsMin DEF InHand, QueueInv, TypeOK

\* A step that keeps the stream, what was begun and acknowledged, and what each
\* worker has in hand is a stuttering step of the contract.
LEMMA Stutter ==
  ASSUME published' = published, begun' = begun, acked' = acked,
         \A w \in Workers :
           /\ (pc'[w] = "handling") <=> (pc[w] = "handling")
           /\ pc'[w] \in {"handling", "ack"} <=> pc[w] \in {"handling", "ack"}
           /\ pc[w] \in {"handling", "ack"} => batch'[w] = batch[w]
  PROVE  UNCHANGED Delivery!dvars
<1>1. \A w \in Workers : InHand(w)' = InHand(w)
  BY DEF InHand
<1> QED BY <1>1 DEF Delivery!dvars, Attempted

\* The worker that takes step is the only one whose place and batch change.
LEMMA OtherHands ==
  ASSUME TypeOK, NEW w \in Workers,
         \A v \in Workers \ {w} : pc'[v] = pc[v] /\ batch'[v] = batch[v]
  PROVE  \A v \in Workers \ {w} : InHand(v)' = InHand(v)
BY DEF InHand

\* Every step is a step of the contract or leaves its variables alone.
LEMMA ContractStep == QueueInv /\ [Next]_vars => [Delivery!DNext]_(Delivery!dvars)
<1> SUFFICES ASSUME QueueInv, [Next]_vars PROVE [Delivery!DNext]_(Delivery!dvars)
  OBVIOUS
<1> USE NameFacts
<1> DEFINE hand == [w \in Workers |-> InHand(w)]
           running == {w \in Workers : pc[w] = "handling"}
<1>1. CASE Publish
  <2>1. UNCHANGED <<hand, running>>
    BY <1>1 DEF Publish, worker, InHand
  <2>2. Attempted' = Attempted
    BY <1>1 DEF Publish, history, Attempted, QueueInv, TypeOK
  <2>3. Delivery!Append
    BY <1>1, <2>1, <2>2 DEF Publish, history, Delivery!Append
  <2> QED BY <2>3 DEF Delivery!DNext
<1>2. CASE Start \/ Stop \/ WorkersStopped \/ Exit
  <2>1. \A w \in Workers : /\ pc'[w] # "handling" <=> pc[w] # "handling"
                           /\ pc'[w] # "ack" <=> pc[w] # "ack"
    BY <1>2 DEF Start, Stop, WorkersStopped, Exit, worker, QueueInv, HoldsWhileWorking
  <2>2. \A w \in Workers : pc[w] \in {"handling", "ack"} => batch'[w] = batch[w]
    BY <1>2 DEF Start, Stop, WorkersStopped, Exit, worker, QueueInv, HoldsWhileWorking
  <2>3. UNCHANGED <<published, begun, acked>>
    BY <1>2 DEF Start, Stop, WorkersStopped, Exit, stream, history
  <2> QED BY <2>1, <2>2, <2>3, Stutter
<1>3. CASE Crash
  <2>1. hand' = Delivery!Nobody /\ running' = {}
    BY <1>3 DEF Crash, InHand, Delivery!Nobody
  <2>2. Delivery!AbortAll
    BY <1>3, <2>1 DEF Crash, stream, history, Attempted, Delivery!AbortAll
  <2> QED BY <2>2 DEF Delivery!DNext
<1>4. ASSUME NEW w \in Workers,
             \/ ReadPending(w) \/ EndRecovery(w) \/ LoopTop(w)
             \/ Read(w) \/ ReadNothing(w) \/ ReadLost(w)
      PROVE  UNCHANGED Delivery!dvars
  <2>1. UNCHANGED <<published, begun, acked>>
    BY <1>4 DEF ReadPending, EndRecovery, LoopTop, Read, ReadNothing, ReadLost, Deliver,
      stream, history
  <2>2. pc[w] \notin {"handling", "ack"}
    BY <1>4 DEF ReadPending, EndRecovery, LoopTop, Read, ReadNothing, ReadLost, Deliver
  <2>3. /\ pc'[w] \notin {"handling", "ack"}
        /\ \A v \in Workers \ {w} : pc'[v] = pc[v]
    BY <1>4 DEF ReadPending, EndRecovery, LoopTop, Read, ReadNothing, ReadLost, GoTo,
      QueueInv, TypeOK
  <2>4. \A v \in Workers \ {w} : batch'[v] = batch[v]
    BY <1>4 DEF ReadPending, EndRecovery, LoopTop, Read, ReadNothing, ReadLost,
      QueueInv, TypeOK
  <2> QED BY <2>1, <2>2, <2>3, <2>4, Stutter
<1>5. ASSUME NEW w \in Workers, BeginHandle(w) PROVE [Delivery!DNext]_(Delivery!dvars)
  <2>1. CASE mode = "up"
    <3>1. PICK m \in batch[w] :
            /\ IsCurrent(m, w)
            /\ begun' = [begun EXCEPT ![consumerNameForWorker(w)] = @ \cup {m}]
      BY <1>5, <2>1 DEF BeginHandle
    <3>2. /\ pc[w] = "next" /\ pc' = [pc EXCEPT ![w] = "handling"]
          /\ UNCHANGED <<published, batch, acked>>
      BY <1>5, <2>1 DEF BeginHandle, GoTo, stream
    <3>3. m \in 1 .. published /\ m \notin acked
      BY NameFacts DEF QueueInv, TypeOK, BatchIsPending, Partition
    <3>4. \A v \in Workers : InHand(v) # m
      <4>1. InHand(w) = 0
        BY <3>2 DEF InHand
      <4>2. ASSUME NEW v \in Workers \ {w}, InHand(v) = m PROVE FALSE
        BY <3>3, <4>2, HandFacts, OneHolderLemma DEF OneHolder
      <4> QED BY <3>3, <4>1, <4>2
    <3>5. hand' = [hand EXCEPT ![w] = m]
      <4>1. InHand(w)' = m
        BY <3>1, <3>2, CurrentIsMin DEF InHand, QueueInv, TypeOK
      <4>2. \A v \in Workers \ {w} : InHand(v)' = InHand(v)
        BY <3>2, OtherHands DEF QueueInv, TypeOK
      <4> QED BY <4>1, <4>2
    <3>6. running' = running \cup {w}
      BY <3>2 DEF QueueInv, TypeOK
    <3>7. Attempted' = Attempted \cup {m}
      BY <3>1, <3>2, <3>3 DEF Attempted, QueueInv, TypeOK
    <3>8. hand[w] = 0 /\ \A v \in Workers : hand[v] # m
      BY <3>2, <3>4 DEF InHand
    <3>9. Delivery!Attempt(w, m)
      BY <3>2, <3>3, <3>5, <3>6, <3>7, <3>8 DEF Delivery!Attempt, Delivery!MayAttempt
    <3> QED BY <3>3, <3>9 DEF Delivery!DNext
  <2>2. CASE mode # "up"
    <3>1. /\ pc[w] = "next" /\ pc' = [pc EXCEPT ![w] = "refused"]
          /\ UNCHANGED <<published, batch, begun, acked>>
      BY <1>5, <2>2 DEF BeginHandle, GoTo, stream
    <3> QED BY <3>1, Stutter DEF QueueInv, TypeOK
  <2> QED BY <2>1, <2>2
<1>6. ASSUME NEW w \in Workers, HandleOk(w) \/ HandleErr(w)
      PROVE  [Delivery!DNext]_(Delivery!dvars)
  <2>1. /\ pc[w] = "handling" /\ pc' = [pc EXCEPT ![w] = "ack"]
        /\ UNCHANGED <<published, batch, begun, acked>>
    BY <1>6 DEF HandleOk, HandleErr, GoTo, stream, history
  <2>2. hand' = hand
    BY <2>1 DEF InHand, QueueInv, TypeOK
  <2>3. w \in running /\ running' = running \ {w}
    BY <2>1 DEF QueueInv, TypeOK
  <2>4. Delivery!Return(w)
    BY <2>1, <2>2, <2>3 DEF Delivery!Return, Attempted
  <2> QED BY <2>4 DEF Delivery!DNext
<1>7. ASSUME NEW w \in Workers, NEW m \in batch[w],
             pc[w] \in {"ack", "refused"}, IsCurrent(m, w), NextMessage(w, m),
             UNCHANGED <<published, begun>>
      PROVE  /\ pc[w] = "ack" => hand[w] = m /\ Delivery!MaySettle(w)
             /\ hand' = [hand EXCEPT ![w] = 0] /\ running' = running
             /\ Attempted' = Attempted
  <2>1. /\ pc'[w] \notin {"handling", "ack"}
        /\ \A v \in Workers \ {w} : pc'[v] = pc[v] /\ batch'[v] = batch[v]
    BY <1>7 DEF NextMessage, GoTo, QueueInv, TypeOK
  <2>2. running' = running
    BY <1>7, <2>1
  <2>3. InHand(w)' = 0 /\ \A v \in Workers \ {w} : InHand(v)' = InHand(v)
    BY <2>1, OtherHands DEF InHand, QueueInv
  <2>4. pc[w] = "ack" => InHand(w) = m /\ m # 0
    BY <1>7, HandIs
  <2> QED BY <1>7, <2>2, <2>3, <2>4 DEF Delivery!MaySettle, Attempted
<1>8. ASSUME NEW w \in Workers, Ack(w) PROVE [Delivery!DNext]_(Delivery!dvars)
  <2>1. PICK m \in batch[w] :
          IsCurrent(m, w) /\ NextMessage(w, m) /\ acked' = acked \cup {m}
    BY <1>8 DEF Ack
  <2>2. pc[w] = "ack" /\ UNCHANGED <<published, begun>>
    BY <1>8 DEF Ack
  <2>3. Delivery!Settle(w)
    BY <2>1, <2>2, <1>7 DEF Delivery!Settle
  <2> QED BY <2>3 DEF Delivery!DNext
<1>9. ASSUME NEW w \in Workers, AckFailed(w) PROVE [Delivery!DNext]_(Delivery!dvars)
  <2>1. PICK m \in batch[w] : IsCurrent(m, w) /\ NextMessage(w, m)
    BY <1>9 DEF AckFailed
  <2>2. pc[w] \in {"ack", "refused"} /\ UNCHANGED <<published, begun, acked>>
    BY <1>9 DEF AckFailed, stream, history
  <2>3. CASE pc[w] = "ack"
    <3>1. Delivery!Leave(w)
      BY <2>1, <2>2, <2>3, <1>7 DEF Delivery!Leave
    <3> QED BY <3>1 DEF Delivery!DNext
  <2>4. CASE pc[w] = "refused"
    <3>1. /\ pc'[w] \notin {"handling", "ack"}
          /\ \A v \in Workers \ {w} : pc'[v] = pc[v] /\ batch'[v] = batch[v]
      BY <2>1, <2>4 DEF NextMessage, GoTo, QueueInv, TypeOK
    <3> QED BY <2>2, <2>4, <3>1, Stutter
  <2> QED BY <2>2, <2>3, <2>4
<1>10. CASE UNCHANGED vars
  BY <1>10, Stutter DEF vars
<1> QED BY <1>1, <1>2, <1>3, <1>4, <1>5, <1>6, <1>8, <1>9, <1>10 DEF Next, WorkerStep

\* Every behaviour of the stream, the group and the workers is one of the
\* at-least-once contract: each worker hands its handler only events that
\* nobody has in hand and nobody acknowledged, and acknowledges that event.
THEOREM Refinement == Spec => DeliveryContract
<1>1. Init => Delivery!DInit
  BY DEF Init, InHand, Attempted, Delivery!DInit, Delivery!Nobody
<1>2. QueueInv /\ [Next]_vars => [Delivery!DNext]_(Delivery!dvars)
  BY ContractStep
<1> QED BY QueueInvariant, <1>1, <1>2, PTL DEF Spec, DeliveryContract, Delivery!DSpec
=================================================================================
