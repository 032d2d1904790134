------------------------------ MODULE EventDelivery ------------------------------
(***************************************************************************)
(* What the event stream promises to the features built on it. A worker    *)
(* that has nothing in hand may be handed any event that is not settled    *)
(* and in nobody's hand, in any order, and again until it is settled. Its  *)
(* handler runs and returns; then the worker settles the event for good,   *)
(* or leaves it. A crash empties all hands.                                *)
(* Nothing is said of pending lists, batches or processes: FeedQueue is    *)
(* the protocol that implements this, and FeedPipeline and Notifications   *)
(* build on it.                                                            *)
(***************************************************************************)
EXTENDS Naturals

CONSTANT Workers

VARIABLES appended,   \* number of events appended; event e is the e-th of them
          hand,       \* the event in the hand of each worker, or 0
          running,    \* the workers whose handler is running
          attempted,  \* events a handler was started on at least once
          settled     \* events that will never be handed out again

dvars == <<appended, hand, running, attempted, settled>>

Nobody == [w \in Workers |-> 0]

DInit == appended = 0 /\ hand = Nobody /\ running = {} /\ attempted = {} /\ settled = {}

Append ==
  /\ appended' = appended + 1
  /\ UNCHANGED <<hand, running, attempted, settled>>

MayAttempt(w, e) ==
  /\ hand[w] = 0
  /\ e \notin settled /\ \A v \in Workers : hand[v] # e

Attempt(w, e) ==
  /\ MayAttempt(w, e)
  /\ hand' = [hand EXCEPT ![w] = e]
  /\ running' = running \cup {w}
  /\ attempted' = attempted \cup {e}
  /\ UNCHANGED <<appended, settled>>

Return(w) ==
  /\ w \in running
  /\ running' = running \ {w}
  /\ UNCHANGED <<appended, hand, attempted, settled>>

MaySettle(w) == hand[w] # 0 /\ w \notin running

Settle(w) ==
  /\ MaySettle(w)
  /\ settled' = settled \cup {hand[w]}
  /\ hand' = [hand EXCEPT ![w] = 0]
  /\ UNCHANGED <<appended, running, attempted>>

Leave(w) ==
  /\ MaySettle(w)
  /\ hand' = [hand EXCEPT ![w] = 0]
  /\ UNCHANGED <<appended, running, attempted, settled>>

\* The process dies: every running handler stops where it was.
AbortAll ==
  /\ hand' = Nobody /\ running' = {}
  /\ UNCHANGED <<appended, attempted, settled>>

DNext ==
  \/ Append
  \/ AbortAll
  \/ \E w \in Workers : \/ \E e \in 1 .. appended : Attempt(w, e)
                        \/ Return(w) \/ Settle(w) \/ Leave(w)

DSpec == DInit /\ [][DNext]_dvars
=================================================================================
